---- MODULE Spec2Model ----
(***************************************************************************)
(* Portfolio valuation and alert engine of investment-tracker.             *)
(*                                                                         *)
(* Units.  A float price is an integer number of cents (50000.0 -> 5000000 *)
(* is out of range for the checker, so the scenarios are scaled down:      *)
(* 3.0 is 300).  A Decimal avg_buy_price is an integer number of cents.    *)
(* A Decimal quantity is an integer number of tenths of the smallest unit  *)
(* the column Numeric(18, 8) stores (1 = 0.000000001, 10 = 0.00000001), so *)
(* that the rounding PostgreSQL applies when it stores a finer quantity is *)
(* part of the model.  A value (quantity * price) is in quantity units     *)
(* times cents.  A ratio that need not be a whole number (the unrounded    *)
(* average price, a PnL percentage) is a reduced fraction <<num, den>>.    *)
(* Python's None is the empty tuple and a present value x is <<x>>.        *)
(***************************************************************************)
EXTENDS Integers, Sequences, FiniteSets, TLC

VARIABLES
    cache,       \* Redis: key -> None | <<[val, ttl]>>
    source,      \* CoinGecko: coin ticker -> None | <<price>> (None: error, timeout, bad body)
    portfolios,  \* table portfolios: set of rows
    nextPortfolioId, \* sequence of portfolios.id
    assets,      \* table assets: set of rows
    nextAssetId, \* sequence of assets.id
    req,         \* in-flight service calls, one per worker slot
    sess,        \* per slot: transient fields of the ORM objects alive in its session
    contrib,     \* history: per (portfolio, ticker) the contributions committed to the row
    lastVal,     \* history: per portfolio the results of the last two undisturbed valuations
    win,         \* history: per cache key the source calls of the current TTL window
    alerts,      \* table alerts: set of rows
    nextAlertId, \* sequence of alerts.id
    history,     \* table portfolio_history: set of rows
    lastPass     \* history: the alerts the last returned evaluation pass fired

vars == <<cache, source, portfolios, nextPortfolioId, assets, nextAssetId, req, sess, contrib,
          lastVal, win, alerts, nextAlertId, history, lastPass>>

(***************************************************************************)
(* Bounds                                                                  *)
(***************************************************************************)
MaxAssetId == 3
MaxContrib == 3
MaxAlertId == 2
MaxPortfolioId == 3

Slots == {1, 2}

None == << >>
Some(x) == <<x>>

(***************************************************************************)
(* Program constants                                                       *)
(***************************************************************************)
CACHE_EXPIRE_SECONDS == 600
TickSeconds == 300

Users == {1, 2}
PortfolioIds == {1, 2}
Tickers == {"BTC", "ETH", "AAPL"}
ArgTickers == Tickers \cup {"btc"}
Prices == {0, 150}
AssetTypes == {"CRYPTO", "STOCK"}

(***************************************************************************)
(* Strings and numbers                                                     *)
(***************************************************************************)
LowerLetters == "abcdefghijklmnopqrstuvwxyz"
UpperLetters == "ABCDEFGHIJKLMNOPQRSTUVWXYZ"
Digits == "0123456789"

\* The position of the one-character string c in s, 0 when it is not there.
RECURSIVE IndexOf(_, _, _)
IndexOf(s, c, i) ==
    IF i > Len(s) THEN 0 ELSE IF SubSeq(s, i, i) = c THEN i ELSE IndexOf(s, c, i + 1)

UpperChar(c) ==
    LET i == IndexOf(LowerLetters, c, 1)
    IN  IF i = 0 THEN c ELSE SubSeq(UpperLetters, i, i)

\* str.upper() for ASCII strings, character by character.
RECURSIVE StrUpper(_)
StrUpper(t) ==
    IF Len(t) = 0 THEN "" ELSE UpperChar(SubSeq(t, 1, 1)) \o StrUpper(SubSeq(t, 2, Len(t)))

\* The ticker strings a caller may pass: the tickers, and spellings of them that
\* are not upper case or not alphanumeric.
TickerStrings == ArgTickers \cup {"Btc", "eth", "aapl", "BTC-USD", "b1", ""}

\* ticker.upper(), tabulated once over the strings of the model.
UpperTable == [t \in TickerStrings |-> StrUpper(t)]

Upper(t) == UpperTable[t]

Digit(d) ==
    CASE d = 0 -> "0" [] d = 1 -> "1" [] d = 2 -> "2" [] d = 3 -> "3" [] d = 4 -> "4"
      [] d = 5 -> "5" [] d = 6 -> "6" [] d = 7 -> "7" [] d = 8 -> "8" [] d = 9 -> "9"

DigitVal(c) == CHOOSE d \in 0..9 : Digit(d) = c

RECURSIVE IntStr(_)
IntStr(n) == IF n < 10 THEN Digit(n) ELSE IntStr(n \div 10) \o Digit(n % 10)

\* str(float): shortest repr, at least one fractional digit ("3.0", "1.5", "0.05").
FloatStr(p) ==
    LET f == p % 100
    IN  IntStr(p \div 100) \o "." \o
        (IF f % 10 = 0 THEN Digit(f \div 10) ELSE Digit(f \div 10) \o Digit(f % 10))

RECURSIVE DotPos(_, _)
DotPos(s, i) == IF i > Len(s) THEN 0 ELSE IF SubSeq(s, i, i) = "." THEN i ELSE DotPos(s, i + 1)

RECURSIVE DigitsVal(_)
DigitsVal(s) ==
    IF Len(s) = 0 THEN 0
    ELSE 10 * DigitsVal(SubSeq(s, 1, Len(s) - 1)) + DigitVal(SubSeq(s, Len(s), Len(s)))

\* float(str): integer digits, ".", one or two fractional digits, in cents.
StrFloat(s) ==
    LET d == DotPos(s, 1)
        whole == IF d = 0 THEN s ELSE SubSeq(s, 1, d - 1)
        frac == IF d = 0 THEN "" ELSE SubSeq(s, d + 1, Len(s))
    IN  100 * DigitsVal(whole) +
        (IF Len(frac) = 0 THEN 0
         ELSE IF Len(frac) = 1 THEN 10 * DigitsVal(frac)
         ELSE DigitsVal(SubSeq(frac, 1, 2)))

\* float(str), first pass (_PyUnicode_TransformDecimalAndSpaceToASCII): a character
\* above U+007F that is a Unicode space becomes " ", one that is a Unicode decimal
\* digit becomes its ASCII digit.  The two strings hold the characters of each class
\* that a string literal of this language can contain: U+0085, U+00A0, U+1680, and
\* eighteen of the decimal-digit runs of ten (the first is U+06F0..U+06F9).
UnicodeSpaces == "  "

UnicodeDigits == "۰۱۲۳۴۵۶۷۸۹߀߁߂߃߄߅߆߇߈߉০১২৩৪৫৬৭৮৯૦૧૨૩૪૫૬૭૮૯௦௧௨௩௪௫௬௭௮௯೦೧೨೩೪೫೬೭೮೯෦෧෨෩෪෫෬෭෮෯໐໑໒໓໔໕໖໗໘໙႐႑႒႓႔႕႖႗႘႙០១២៣៤៥៦៧៨៩᧐᧑᧒᧓᧔᧕᧖᧗᧘᧙᪀᪁᪂᪃᪄᪅᪆᪇᪈᪉᪐᪑᪒᪓᪔᪕᪖᪗᪘᪙᮰᮱᮲᮳᮴᮵᮶᮷᮸᮹꣐꣑꣒꣓꣔꣕꣖꣗꣘꣙꧐꧑꧒꧓꧔꧕꧖꧗꧘꧙꧰꧱꧲꧳꧴꧵꧶꧷꧸꧹꯰꯱꯲꯳꯴꯵꯶꯷꯸꯹"

\* The position of the one-character string c in s, 0 when it is not there.
PosIn(s, c) ==
    IF \E i \in 1..Len(s) : SubSeq(s, i, i) = c
    THEN CHOOSE i \in 1..Len(s) : SubSeq(s, i, i) = c
    ELSE 0

ToAsciiChar(c) ==
    IF PosIn(UnicodeSpaces, c) # 0 THEN " "
    ELSE IF PosIn(UnicodeDigits, c) # 0 THEN Digit((PosIn(UnicodeDigits, c) - 1) % 10)
    ELSE c

RECURSIVE ToAscii(_)
ToAscii(s) ==
    IF Len(s) = 0 THEN "" ELSE ToAsciiChar(SubSeq(s, 1, 1)) \o ToAscii(SubSeq(s, 2, Len(s)))

\* float(str), second pass: the ASCII white space (Py_ISSPACE) cut from both ends:
\* space, \t, \n, \r, \f and the vertical tab U+000B.
WhiteSpace == {" ", "\t", "\n", "\r", "\f", ""}

RECURSIVE Strip(_)
Strip(s) ==
    IF Len(s) = 0 THEN s
    ELSE IF SubSeq(s, 1, 1) \in WhiteSpace THEN Strip(SubSeq(s, 2, Len(s)))
    ELSE IF SubSeq(s, Len(s), Len(s)) \in WhiteSpace THEN Strip(SubSeq(s, 1, Len(s) - 1))
    ELSE s

HasSign(s) == Len(s) > 0 /\ SubSeq(s, 1, 1) \in {"+", "-"}

Unsigned(s) == IF HasSign(s) THEN SubSeq(s, 2, Len(s)) ELSE s

SignOf(s) == IF HasSign(s) /\ SubSeq(s, 1, 1) = "-" THEN 0 - 1 ELSE 1

\* A digit part of a float literal: digits, single underscores between them.
RECURSIVE IsDigitPart(_, _)
IsDigitPart(s, after_digit) ==
    IF Len(s) = 0 THEN after_digit
    ELSE IF IndexOf(Digits, SubSeq(s, 1, 1), 1) # 0 THEN IsDigitPart(SubSeq(s, 2, Len(s)), TRUE)
    ELSE IF SubSeq(s, 1, 1) = "_" THEN after_digit /\ IsDigitPart(SubSeq(s, 2, Len(s)), FALSE)
    ELSE FALSE

RECURSIVE OnlyDigits(_)
OnlyDigits(s) ==
    IF Len(s) = 0 THEN ""
    ELSE (IF SubSeq(s, 1, 1) = "_" THEN "" ELSE SubSeq(s, 1, 1)) \o OnlyDigits(SubSeq(s, 2, Len(s)))

\* The position of the exponent marker, 0 when there is none.
ExpPos(s) ==
    LET e == IndexOf(s, "e", 1)
        E == IndexOf(s, "E", 1)
    IN  IF e = 0 THEN E ELSE IF E = 0 THEN e ELSE IF e < E THEN e ELSE E

MantissaOf(s) == IF ExpPos(s) = 0 THEN s ELSE SubSeq(s, 1, ExpPos(s) - 1)

WholeOf(m) == IF DotPos(m, 1) = 0 THEN m ELSE SubSeq(m, 1, DotPos(m, 1) - 1)

FracOf(m) == IF DotPos(m, 1) = 0 THEN "" ELSE SubSeq(m, DotPos(m, 1) + 1, Len(m))

IsMantissa(m) ==
    /\ WholeOf(m) # "" \/ FracOf(m) # ""
    /\ WholeOf(m) = "" \/ IsDigitPart(WholeOf(m), FALSE)
    /\ FracOf(m) = "" \/ IsDigitPart(FracOf(m), FALSE)

IsDecimal(u) ==
    /\ IsMantissa(MantissaOf(u))
    /\ ExpPos(u) # 0 => IsDigitPart(Unsigned(SubSeq(u, ExpPos(u) + 1, Len(u))), FALSE)

RECURSIVE Pow10(_)
Pow10(n) == IF n = 0 THEN 1 ELSE 10 * Pow10(n - 1)

\* The value of a decimal literal without sign, in cents (further digits are cut).
DecimalCents(u) ==
    LET m == MantissaOf(u)
        frac == OnlyDigits(FracOf(m))
        digits == DigitsVal(OnlyDigits(WholeOf(m)) \o frac)
        ex == IF ExpPos(u) = 0 THEN 0
              ELSE LET x == SubSeq(u, ExpPos(u) + 1, Len(u))
                   IN  SignOf(x) * DigitsVal(OnlyDigits(Unsigned(x)))
        shift == ex - Len(frac) + 2
    IN  IF shift >= 0 THEN digits * Pow10(shift) ELSE digits \div Pow10(0 - shift)

\* float(s) for a string: None when it raises ValueError; else the value in cents,
\* or "inf", "-inf", "nan" for the literals of that name.
ParseFloat(s) ==
    LET t == Strip(ToAscii(s))
        u == Unsigned(t)
        name == IF \A i \in 1..Len(u) : IndexOf(LowerLetters \o UpperLetters, SubSeq(u, i, i), 1) # 0
                THEN StrUpper(u) ELSE ""
    IN  IF u = "" THEN None
        ELSE IF name \in {"INF", "INFINITY"} THEN Some(IF SignOf(t) < 0 THEN "-inf" ELSE "inf")
        ELSE IF name = "NAN" THEN Some("nan")
        ELSE IF IsDecimal(u) THEN Some(SignOf(t) * DecimalCents(u))
        ELSE None

Abs(x) == IF x < 0 THEN 0 - x ELSE x

RECURSIVE Gcd(_, _)
Gcd(a, b) == IF b = 0 THEN a ELSE Gcd(b, a % b)

\* The fraction n/d (d > 0) in lowest terms.
Frac(n, d) == LET g == Gcd(Abs(n), d) IN <<n \div g, d \div g>>

\* n/d (n >= 0, d > 0) rounded to the nearest whole number, ties away from zero:
\* what PostgreSQL numeric does when the value has more digits than the column's scale.
RoundHalfUp(n, d) == (2 * n + d) \div (2 * d)

(***************************************************************************)
(* decimal.Decimal: the arithmetic of add_asset_to_portfolio               *)
(***************************************************************************)
\* The precision of the default context of the decimal module: every result of
\* Decimal arithmetic is rounded to this many significant digits.
Prec == 28

\* n/d (n >= 0, d > 0) rounded to the nearest whole number, ties to the even one:
\* ROUND_HALF_EVEN, the rounding of the default context.
RoundHalfEven(n, d) ==
    LET q == n \div d
        r == n % d
    IN  IF 2 * r > d \/ (2 * r = d /\ q % 2 = 1) THEN q + 1 ELSE q

\* The number of decimal digits of n >= 0.
RECURSIVE NumDigits(_)
NumDigits(n) == IF n < 10 THEN 1 ELSE 1 + NumDigits(n \div 10)

\* The exact result n of a product or a sum (a whole number of its unit) as the
\* context returns it: with at most Prec significant digits.
ContextRound(n) ==
    IF NumDigits(n) <= Prec THEN n
    ELSE LET p == Pow10(NumDigits(n) - Prec) IN p * RoundHalfEven(n, p)

\* A decimal number >= 0: its whole part and the digits after the point, without
\* trailing zeros (Decimal("2.50") == Decimal("2.5")).
DecimalOf(n) == [whole |-> n, frac |-> << >>]

\* The first k digits of r/d (0 <= r < d) after the point, followed by the remainder.
RECURSIVE LongDiv(_, _, _)
LongDiv(r, d, k) ==
    IF k = 0 THEN <<r>> ELSE <<(10 * r) \div d>> \o LongDiv((10 * r) % d, d, k - 1)

\* The number of zeros between the point and the first other digit of r/d (0 < r < d).
RECURSIVE LeadingZeros(_, _)
LeadingZeros(r, d) == IF 10 * r >= d THEN 0 ELSE 1 + LeadingZeros(10 * r, d)

\* One unit more in the last place of the digits: <<carry, digits>>.
RECURSIVE Increment(_)
Increment(digits) ==
    IF digits = << >> THEN <<1, << >> >>
    ELSE LET n == Len(digits)
         IN  IF digits[n] < 9 THEN <<0, [digits EXCEPT ![n] = @ + 1]>>
             ELSE LET rest == Increment(SubSeq(digits, 1, n - 1))
                  IN  <<rest[1], Append(rest[2], 0)>>

RECURSIVE StripZeros(_)
StripZeros(digits) ==
    IF digits # << >> /\ digits[Len(digits)] = 0
    THEN StripZeros(SubSeq(digits, 1, Len(digits) - 1))
    ELSE digits

\* Decimal division n/d (n >= 0, d > 0): the quotient with Prec significant digits,
\* the digits beyond them rounded half-even.
DecimalDiv(n, d) ==
    LET w == n \div d
        r == n % d
    IN  IF r = 0 THEN DecimalOf(ContextRound(w))
        ELSE IF w > 0 /\ NumDigits(w) >= Prec
        THEN LET p == Pow10(NumDigits(w) - Prec) IN DecimalOf(p * RoundHalfEven(n, d * p))
        ELSE LET k == IF w > 0 THEN Prec - NumDigits(w) ELSE Prec + LeadingZeros(r, d)
                 ld == LongDiv(r, d, k)
                 digits == SubSeq(ld, 1, k)
                 rem == ld[k + 1]
                 up == 2 * rem > d \/ (2 * rem = d /\ digits[k] % 2 = 1)
                 inc == IF up THEN Increment(digits) ELSE <<0, digits>>
             IN  [whole |-> w + inc[1], frac |-> StripZeros(inc[2])]

(***************************************************************************)
(* PriceCache: Redis                                                       *)
(***************************************************************************)
\* Mutant: the key is built from the ticker as given.
CacheKey_AsGiven(ticker) == "price:" \o ticker

\* service.py 28: cache_key = f"price:{ticker.upper()}"
CacheKey(ticker) == "price:" \o Upper(ticker)

CacheKeys == {"price:" \o t : t \in ArgTickers}

RedisGet(c, key) == IF c[key] = None THEN None ELSE Some(c[key][1].val)

RedisSet(c, key, value, ex) == [c EXCEPT ![key] = Some([val |-> value, ttl |-> ex])]

(***************************************************************************)
(* MarketDataSource: CoinGeckoClient                                       *)
(***************************************************************************)
ticker_map ==
    [t \in {"BTC", "ETH", "SOL", "ADA", "DOT"} |->
        CASE t = "BTC" -> "bitcoin" [] t = "ETH" -> "ethereum" [] t = "SOL" -> "solana"
          [] t = "ADA" -> "cardano" [] t = "DOT" -> "polkadot"]

Mapped == Tickers \cap DOMAIN ticker_map

\* get_current_price: None for an unmapped ticker (no request is made), else the
\* provider's answer, None standing for an HTTP error, a timeout or a malformed body.
GetCurrentPrice(src, ticker) ==
    IF Upper(ticker) \notin DOMAIN ticker_map THEN None ELSE src[Upper(ticker)]

\* What the provider does with one request: no answer within the timeout, or a
\* status and a body.  body is "not_json", "null", "list" or "object"; an object has
\* at most one key, coin ("" for {}), whose value is an object with or without the
\* key usd (usd_type "absent") or is not an object (usd_type "not_object").
Response(kind, status, body, coin, usd_type, usd_text) ==
    [kind |-> kind, status |-> status, body |-> body, coin |-> coin,
     usd_type |-> usd_type, usd_text |-> usd_text]

UsdValues ==
    {<<"absent", "">>, <<"not_object", "">>, <<"null", "">>, <<"number", "1.5">>,
     <<"number", "0.0">>, <<"string", "1.5">>, <<"string", "abc">>, <<"string", "">>,
     <<"string", "1.2.3">>, <<"string", "1e3">>, <<"string", " -1.5 ">>, <<"string", "inf">>,
     <<"string", "1.5">>, <<"string", " 1.5">>, <<"string", "۱.۵">>,
     <<"bool", "true">>}

Bodies ==
    {<<"not_json", "", "", "">>, <<"null", "", "", "">>, <<"list", "", "", "">>,
     <<"object", "", "", "">>}
      \cup {<<"object", c, u[1], u[2]>> : c \in {"bitcoin", "ethereum"}, u \in UsdValues}

Responses ==
    {Response("timeout", 0, "", "", "", "")}
      \cup {Response("http", st, b[1], b[2], b[3], b[4]) : st \in {200, 201, 500}, b \in Bodies}

\* float accepts the string.
IsNumeric(s) == ParseFloat(s) # None

\* client.py 38: float(data[coin_id]["usd"]); None when float raises (a string that
\* is no float literal: ValueError; null, a list, an object: TypeError).
FloatOf(usd_type, usd_text) ==
    CASE usd_type = "number" -> ParseFloat(usd_text)
      [] usd_type = "string" -> IF IsNumeric(usd_text) THEN ParseFloat(usd_text) ELSE None
      [] usd_type = "bool" -> Some(IF usd_text = "true" THEN 100 ELSE 0)
      [] OTHER -> None

\* client.py 31-46: get, raise_for_status, json, the two membership tests, float;
\* every exception raised inside the try statement ends in return None.
Parsed(response, coin_id) ==
    IF response.kind = "timeout" THEN None
    ELSE IF response.status \notin 200..299 THEN None
    ELSE IF response.body # "object" THEN None
    ELSE IF response.coin # coin_id THEN None
    ELSE IF response.usd_type \in {"absent", "not_object"} THEN None
    ELSE FloatOf(response.usd_type, response.usd_text)

\* client.py 16-46: the price returned, the number of requests made, whether the
\* call raised.
ClientResult(ticker, response) ==
    IF Upper(ticker) \notin DOMAIN ticker_map
    THEN [price |-> None, requests |-> 0, raised |-> FALSE]
    ELSE [price |-> Parsed(response, ticker_map[Upper(ticker)]), requests |-> 1,
          raised |-> FALSE]

(***************************************************************************)
(* PriceService: MarketDataService.get_price as a task of three awaits     *)
(***************************************************************************)
\* Mutant: force_refresh is ignored, the cache is read first.
PriceTask_NoForce(ticker, force_refresh) ==
    [ticker |-> ticker, force |-> force_refresh, pc |-> "get",
     seen |-> None, fetched |-> None, result |-> None,
     gets |-> 0, calls |-> 0, sets |-> 0]

\* A running get_price coroutine.  seen is what redis.get returned, fetched what
\* the client returned; gets, calls and sets count the awaits it has made.
PriceTask(ticker, force_refresh) ==
    [ticker |-> ticker, force |-> force_refresh,
     pc |-> IF force_refresh THEN "fetch" ELSE "get",
     seen |-> None, fetched |-> None, result |-> None,
     gets |-> 0, calls |-> 0, sets |-> 0]

\* `if cached_price:` a string is truthy unless it is empty.
Truthy(opt) == opt # None /\ opt[1] # ""

\* Mutant: the read is made but its result is not used, the source is always asked.
AfterGet_IgnoresHit(task, c) ==
    [task EXCEPT !.pc = "fetch", !.seen = RedisGet(c, CacheKey(task.ticker)), !.gets = @ + 1]

\* service.py 29-32: cached_price = await self.redis.get(cache_key)
AfterGet(task, c) ==
    LET cached_price == RedisGet(c, CacheKey(task.ticker))
    IN  IF Truthy(cached_price)
        THEN [task EXCEPT !.pc = "done", !.seen = cached_price, !.gets = @ + 1,
                          !.result = Some(StrFloat(cached_price[1]))]
        ELSE [task EXCEPT !.pc = "fetch", !.seen = cached_price, !.gets = @ + 1]

\* Mutant: an absent price is turned into 0.0 (`return price or 0.0`).
AfterFetch_ZeroForAbsent(task, src) ==
    LET price == GetCurrentPrice(src, task.ticker)
    IN  IF price # None
        THEN [task EXCEPT !.pc = "set", !.fetched = price, !.calls = @ + 1]
        ELSE [task EXCEPT !.pc = "done", !.fetched = None, !.calls = @ + 1, !.result = Some(0)]

\* service.py 33-34, 37: price = await self.client.get_current_price(ticker)
AfterFetch(task, src) ==
    LET price == GetCurrentPrice(src, task.ticker)
    IN  IF price # None
        THEN [task EXCEPT !.pc = "set", !.fetched = price, !.calls = @ + 1]
        ELSE [task EXCEPT !.pc = "done", !.fetched = None, !.calls = @ + 1, !.result = None]

\* Mutant: every price is stored under the key of BTC.
CacheAfterSet_OneKey(task, c) ==
    RedisSet(c, "price:BTC", FloatStr(task.fetched[1]), CACHE_EXPIRE_SECONDS)

\* Mutant: the price is returned but never stored.
CacheAfterSet_NoStore(task, c) == c

\* service.py 35: await self.redis.set(cache_key, str(price), ex=self.CACHE_EXPIRE_SECONDS)
CacheAfterSet(task, c) ==
    RedisSet(c, CacheKey(task.ticker), FloatStr(task.fetched[1]), CACHE_EXPIRE_SECONDS)

AfterSet(task) == [task EXCEPT !.pc = "done", !.sets = @ + 1, !.result = task.fetched]

(***************************************************************************)
(* Service calls                                                           *)
(***************************************************************************)
NoOut == [status |-> 0]

\* The local state of one run of _update_prices_logic or of _create_snapshots_logic.
NoJob ==
    [tickers |-> {}, active |-> << >>, idx |-> 0, current_price |-> None,
     triggered_count |-> 0, fired |-> {}, sent |-> << >>, checked |-> << >>,
     returned |-> None, aclose |-> 0, dispose |-> 0, error |-> "",
     today |-> 0, ports |-> << >>, pending |-> << >>, count |-> 0]

Idle ==
    [kind |-> "idle", pc |-> "idle", user |-> 0, pid |-> 0, ticker |-> "",
     qty |-> 0, cost |-> 0, atype |-> "", tasks |-> << >>, port |-> None,
     existing |-> None, tainted |-> FALSE, out |-> NoOut, job |-> NoJob,
     alert_id |-> 0, alert |-> None, update |-> None, response |-> None, name |-> "",
     description |-> None]

NoSession == [assets |-> << >>, ports |-> << >>]

\* The table portfolio_history: its rows, and whether it has a unique constraint on
\* (portfolio_id, date).
NoHistory == [uq |-> FALSE, rows |-> {}]

TaskIdx(r) == DOMAIN req[r].tasks

AllDone(r) == \A i \in TaskIdx(r) : req[r].tasks[i].pc = "done"

InFlight(r) == req[r].kind # "idle" /\ req[r].pc # "done"

(***************************************************************************)
(* History of the source calls per TTL window of a cache key.  The window  *)
(* of a key ends when Redis drops its entry.  calls counts the non-forced  *)
(* get_price calls of the window to which the source returned a price;     *)
(* overlap says that two non-forced calls for the key ran at the same time.*)
(***************************************************************************)
NoWindow == [calls |-> 0, overlap |-> FALSE]

\* The non-forced get_price calls for a key that have not returned yet.
Running(rq, key) ==
    {ri \in {<<r, i>> : r \in Slots, i \in 1..MaxAssetId} :
        /\ ri[2] \in DOMAIN rq[ri[1]].tasks
        /\ ~rq[ri[1]].tasks[ri[2]].force
        /\ rq[ri[1]].tasks[ri[2]].pc # "done"
        /\ CacheKey(rq[ri[1]].tasks[ri[2]].ticker) = key}

Began(w, rq, tasks) ==
    [k \in DOMAIN w |->
        IF \E i \in DOMAIN tasks : ~tasks[i].force /\ CacheKey(tasks[i].ticker) = k
        THEN [w[k] EXCEPT !.overlap = @ \/ Running(rq, k) # {}]
        ELSE w[k]]

Fetched(w, before, after) ==
    IF ~before.force /\ after.fetched # None
    THEN [w EXCEPT ![CacheKey(before.ticker)].calls = IF @ < 2 THEN @ + 1 ELSE @]
    ELSE w

Expired(w, c1, c2, rq) ==
    [k \in DOMAIN w |->
        IF c1[k] # None /\ c2[k] = None
        THEN [calls |-> 0, overlap |-> Cardinality(Running(rq, k)) >= 2]
        ELSE w[k]]

\* A caller awaits get_price(ticker, force_refresh) directly.
StartGetPrice(r, ticker, force_refresh) ==
    /\ req[r].kind = "idle"
    /\ req' = [req EXCEPT ![r] = [Idle EXCEPT !.kind = "price", !.pc = "gather",
                                              !.ticker = ticker,
                                              !.tasks = <<PriceTask(ticker, force_refresh)>>]]
    /\ win' = Began(win, req, <<PriceTask(ticker, force_refresh)>>)
    /\ UNCHANGED <<cache, source, portfolios, nextPortfolioId, assets, nextAssetId, sess, contrib,
                   lastVal, alerts, nextAlertId, history, lastPass>>

HasRaised(rq) == \E i \in DOMAIN rq.tasks : rq.tasks[i].pc = "raised"

\* The get_price coroutines of a gather run while the caller awaits the gather, and
\* run on when one of them has raised: gather hands the first exception to the
\* caller and leaves the others running, until the slot is used again or the
\* job's event loop ends.
Gathering(rq) ==
    \/ rq.pc = "gather"
    \/ HasRaised(rq) /\ rq.pc \in {"done", "finally", "dispose"}

TaskGet(r, i) ==
    /\ Gathering(req[r])
    /\ req[r].tasks[i].pc = "get"
    /\ req' = [req EXCEPT ![r].tasks[i] = AfterGet(@, cache)]
    /\ UNCHANGED <<cache, source, portfolios, nextPortfolioId, assets, nextAssetId, sess, contrib,
                   lastVal, win, alerts, nextAlertId, history, lastPass>>

TaskFetch(r, i) ==
    /\ Gathering(req[r])
    /\ req[r].tasks[i].pc = "fetch"
    /\ req' = [req EXCEPT ![r].tasks[i] = AfterFetch(@, source)]
    /\ win' = Fetched(win, req[r].tasks[i], req'[r].tasks[i])
    /\ UNCHANGED <<cache, source, portfolios, nextPortfolioId, assets, nextAssetId, sess, contrib,
                   lastVal, alerts, nextAlertId, history, lastPass>>

\* The effective price of a ticker: what a non-forced get_price resolves it to.
Effective(c, src, ticker) ==
    LET cached_price == RedisGet(c, CacheKey(ticker))
    IN  IF Truthy(cached_price) THEN Some(StrFloat(cached_price[1]))
        ELSE GetCurrentPrice(src, ticker)

PriceChanged(c1, s1, c2, s2) == \E t \in Tickers : Effective(c1, s1, t) # Effective(c2, s2, t)

\* A valuation that is running while a price or a position changes is disturbed.
Taint(rq, changed) ==
    [r \in Slots |-> IF changed /\ rq[r].kind # "idle" THEN [rq[r] EXCEPT !.tainted = TRUE]
                     ELSE rq[r]]

NoValuation == [prev |-> None, cur |-> None]

\* valid: a pass has returned and no alert was created or re-armed since; fired: the
\* alerts it fired; steady: no cached price other than those of the fired alerts
\* has changed since.
NoPass == [valid |-> FALSE, fired |-> {}, steady |-> FALSE]

FiredKeys(lp, rows) == {"price:" \o a.ticker : a \in {x \in rows : x.id \in lp.fired}}

CacheMoved(lp, rows, c1, c2) ==
    IF \E k \in DOMAIN c1 : RedisGet(c1, k) # RedisGet(c2, k) /\ k \notin FiredKeys(lp, rows)
    THEN [lp EXCEPT !.steady = FALSE] ELSE lp

\* _process_alerts has returned its count, or has raised.
PassEnded(lp, before, after) ==
    IF before.job.returned = None /\ after.job.returned # None
    THEN [valid |-> TRUE, fired |-> after.job.fired, steady |-> TRUE]
    ELSE IF before.job.error = "" /\ after.job.error # "" THEN NoPass
    ELSE lp

Forget(lv, changed) == IF changed THEN [p \in DOMAIN lv |-> NoValuation] ELSE lv

TaskSet(r, i) ==
    /\ Gathering(req[r])
    /\ req[r].tasks[i].pc = "set"
    /\ cache' = CacheAfterSet(req[r].tasks[i], cache)
    /\ LET changed == PriceChanged(cache, source, cache', source)
       IN  /\ req' = Taint([req EXCEPT ![r].tasks[i] = AfterSet(@)], changed)
           /\ lastVal' = Forget(lastVal, changed)
    /\ UNCHANGED <<source, portfolios, nextPortfolioId, assets, nextAssetId, sess, contrib, win,
                   alerts, nextAlertId, history>>
    /\ lastPass' = CacheMoved(lastPass, alerts, cache, cache')

\* service.py 29, 35: the await of redis.get or of redis.set raises; get_price has no
\* try statement, the exception leaves it.
Raised(task) ==
    [task EXCEPT !.pc = "raised",
                 !.gets = IF task.pc = "get" THEN @ + 1 ELSE @,
                 !.sets = IF task.pc = "set" THEN @ + 1 ELSE @]

TaskCacheFault(r, i) ==
    /\ Gathering(req[r])
    /\ req[r].tasks[i].pc \in {"get", "set"}
    /\ req' = [req EXCEPT ![r].tasks[i] = Raised(@)]
    /\ UNCHANGED <<cache, source, portfolios, nextPortfolioId, assets, nextAssetId, sess, contrib,
                   lastVal, win, alerts, nextAlertId, history, lastPass>>

\* Mutant: the exception of a lookup is swallowed and its price taken as absent.
GatherRaised_AsAbsent(rq) ==
    IF rq.kind = "refresh" THEN [rq EXCEPT !.pc = "active"]
    ELSE [rq EXCEPT !.pc = "done",
                    !.out = [status |-> 200,
                             portfolio |-> [rq.port[1] EXCEPT !.total_value = Some(0)]]]

\* asyncio.gather raises the first exception of its awaitables (portfolio service.py
\* 61, tasks.py 103): get_portfolio and the direct caller end with the exception,
\* the refresh job leaves its try block for the finally block.
GatherRaised(rq) ==
    IF rq.kind = "refresh" THEN [rq EXCEPT !.pc = "finally", !.job.error = "gather"]
    ELSE [rq EXCEPT !.pc = "done", !.out = [status |-> 500]]

GatherFault(r) ==
    /\ req[r].kind \in {"price", "valuate", "add", "remove", "update_portfolio",
                       "delete_portfolio", "refresh"}
    /\ req[r].pc = "gather"
    /\ HasRaised(req[r])
    /\ req' = [req EXCEPT ![r] = GatherRaised(@)]
    /\ UNCHANGED <<cache, source, portfolios, nextPortfolioId, assets, nextAssetId, sess, contrib,
                   lastVal, win, alerts, nextAlertId, history>>
    /\ lastPass' = PassEnded(lastPass, req[r], req'[r])

\* get_price returns to its caller.
ReturnPrice(r) ==
    /\ req[r].kind = "price"
    /\ req[r].pc = "gather"
    /\ AllDone(r)
    /\ req' = [req EXCEPT ![r] = Idle]
    /\ UNCHANGED <<cache, source, portfolios, nextPortfolioId, assets, nextAssetId, sess, contrib,
                   lastVal, win, alerts, nextAlertId, history, lastPass>>

\* The call's result has been consumed; keep_session says whether the caller goes
\* on using the same AsyncSession (tests/conftest.py overrides get_db with one
\* shared session) or the session ends with the request (core/database.py get_db).
Finish(r, keep_session) ==
    /\ req[r].pc = "done"
    /\ req' = [req EXCEPT ![r] = Idle]
    /\ sess' = [sess EXCEPT ![r] = IF keep_session THEN @ ELSE NoSession]
    /\ UNCHANGED <<cache, source, portfolios, nextPortfolioId, assets, nextAssetId, contrib, lastVal,
                   win, alerts, nextAlertId, history, lastPass>>

\* A caller awaits CoinGeckoClient.get_current_price(ticker); response is what the
\* provider does with the request, if one is made.
StartClientCall(r, ticker, response) ==
    /\ req[r].kind = "idle"
    /\ req' = [req EXCEPT ![r] = [Idle EXCEPT !.kind = "client", !.pc = "call",
                                              !.ticker = ticker,
                                              !.response = Some(response)]]
    /\ UNCHANGED <<cache, source, portfolios, nextPortfolioId, assets, nextAssetId, sess, contrib,
                   lastVal, win, alerts, nextAlertId, history, lastPass>>

ClientReturn(r) ==
    /\ req[r].kind = "client"
    /\ req[r].pc = "call"
    /\ LET res == ClientResult(req[r].ticker, req[r].response[1])
       IN  req' = [req EXCEPT ![r].pc = "done",
                              ![r].out = [status |-> IF res.raised THEN 500 ELSE 200,
                                          price |-> res.price, requests |-> res.requests]]
    /\ UNCHANGED <<cache, source, portfolios, nextPortfolioId, assets, nextAssetId, sess, contrib,
                   lastVal, win, alerts, nextAlertId, history, lastPass>>

(***************************************************************************)
(* Storage: the tables portfolios and assets                               *)
(***************************************************************************)
\* Numeric(18, 8): a quantity is stored in whole smallest units (multiples of 10).
RoundQty(q) == 10 * RoundHalfUp(q, 10)

\* Numeric(18, 2): a price (a decimal number of cents) is stored in whole cents,
\* PostgreSQL rounds the digits beyond the scale half away from zero.
RoundCost(x) == IF x.frac # << >> /\ x.frac[1] >= 5 THEN x.whole + 1 ELSE x.whole

RECURSIVE SortedIds(_)
SortedIds(ids) ==
    IF ids = {} THEN << >>
    ELSE LET m == CHOOSE x \in ids : \A y \in ids : x <= y
         IN  <<m>> \o SortedIds(ids \ {m})

PortfolioRow(pid) ==
    IF \E p \in portfolios : p.id = pid THEN Some(CHOOSE p \in portfolios : p.id = pid) ELSE None

AssetRow(id) == CHOOSE a \in assets : a.id = id

NoTransient == [current_price |-> None, current_value |-> None, pnl_percentage |-> None]

NoTotals == [total_value |-> None, total_pnl_percentage |-> None]

\* The Asset object a session holds for a row: the mapped columns as read now,
\* the transient attributes as the session's object carries them.
AssetObject(row, s) ==
    LET tr == IF row.id \in DOMAIN s.assets THEN s.assets[row.id] ELSE NoTransient
    IN  [id |-> row.id, ticker |-> row.ticker, quantity |-> row.quantity,
         avg_buy_price |-> row.avg_buy_price, asset_type |-> row.asset_type,
         current_price |-> tr.current_price, current_value |-> tr.current_value,
         pnl_percentage |-> tr.pnl_percentage]

\* repository.py 39-45: session.execute of a statement with selectinload sends two
\* SELECTs, each a round trip of its own that sees what is committed when it runs.
\* The first reads the portfolio's row; populate_existing: the object of the session
\* takes the row's columns and keeps its transient attributes.
GetPortfolioById(pid, s) ==
    IF PortfolioRow(pid) = None THEN None
    ELSE LET p == PortfolioRow(pid)[1]
             tot == IF pid \in DOMAIN s.ports THEN s.ports[pid] ELSE NoTotals
         IN  Some([id |-> p.id, user_id |-> p.user_id, name |-> p.name,
                   description |-> p.description,
                   assets |-> << >>,
                   total_value |-> tot.total_value,
                   total_pnl_percentage |-> tot.total_pnl_percentage])

\* The second SELECT of selectinload(Portfolio.assets): the rows of assets whose
\* portfolio_id is the id the first SELECT returned.
SelectInLoad(port, s) ==
    LET ids == SortedIds({a.id : a \in {x \in assets : x.portfolio_id = port.id}})
    IN  [port EXCEPT !.assets = [i \in DOMAIN ids |-> AssetObject(AssetRow(ids[i]), s)]]

\* repository.get_asset_by_ticker: the row's object; one the session already holds
\* keeps the column values it was loaded with.
GetAssetByTicker(pid, ticker, port, s) ==
    LET rows == {a \in assets : a.portfolio_id = pid /\ a.ticker = ticker}
    IN  IF rows = {} THEN None
        ELSE LET row == CHOOSE a \in rows : \A b \in rows : a.id <= b.id
                 held == {i \in DOMAIN port.assets : port.assets[i].id = row.id}
             IN  IF held # {} THEN Some(port.assets[CHOOSE i \in held : TRUE])
                 ELSE Some(AssetObject(row, s))

(***************************************************************************)
(* ValuationEngine: PortfolioService.get_portfolio                         *)
(***************************************************************************)
\* service.py 66-82 for one asset and the price gathered for it.
ValuateAsset(asset, price) ==
    IF price = None THEN [asset EXCEPT !.current_price = None]
    ELSE LET current_val == asset.quantity * price[1]
             cost_val == asset.quantity * asset.avg_buy_price
         IN  [asset EXCEPT
                !.current_price = price,
                !.current_value = Some(current_val),
                !.pnl_percentage = IF cost_val > 0
                                   THEN Some(Frac((current_val - cost_val) * 100, cost_val))
                                   ELSE @]

RECURSIVE SumOf(_)
SumOf(seq) == IF seq = << >> THEN 0 ELSE Head(seq) + SumOf(Tail(seq))

ResolvedValue(assetsAndPrices, i) ==
    IF assetsAndPrices[i][2] = None THEN 0
    ELSE assetsAndPrices[i][1].quantity * assetsAndPrices[i][2][1]

ResolvedCost(assetsAndPrices, i) ==
    IF assetsAndPrices[i][2] = None THEN 0
    ELSE assetsAndPrices[i][1].quantity * assetsAndPrices[i][1].avg_buy_price

\* Mutant: the prices are paired with the assets in the reverse order.
Valuate_Reversed(port, current_prices) ==
    LET n == Len(port.assets)
        zipped == [i \in DOMAIN port.assets |-> <<port.assets[i], current_prices[n + 1 - i]>>]
        total_value == SumOf([i \in DOMAIN zipped |-> ResolvedValue(zipped, i)])
        total_cost == SumOf([i \in DOMAIN zipped |-> ResolvedCost(zipped, i)])
    IN  [port EXCEPT
            !.assets = [i \in DOMAIN port.assets |->
                          ValuateAsset(port.assets[i], current_prices[n + 1 - i])],
            !.total_value = Some(total_value),
            !.total_pnl_percentage = IF total_cost > 0
                                     THEN Some(Frac((total_value - total_cost) * 100, total_cost))
                                     ELSE @]

\* service.py 63-88: zip(portfolio.assets, current_prices), then the totals.
Valuate(port, current_prices) ==
    LET zipped == [i \in DOMAIN port.assets |-> <<port.assets[i], current_prices[i]>>]
        total_value == SumOf([i \in DOMAIN zipped |-> ResolvedValue(zipped, i)])
        total_cost == SumOf([i \in DOMAIN zipped |-> ResolvedCost(zipped, i)])
    IN  [port EXCEPT
            !.assets = [i \in DOMAIN port.assets |-> ValuateAsset(port.assets[i], current_prices[i])],
            !.total_value = Some(total_value),
            !.total_pnl_percentage = IF total_cost > 0
                                     THEN Some(Frac((total_value - total_cost) * 100, total_cost))
                                     ELSE @]

\* The transient attributes stay on the session's objects after the call.
Remember(s, port) ==
    LET ids == {port.assets[i].id : i \in DOMAIN port.assets}
        obj(id) == port.assets[CHOOSE i \in DOMAIN port.assets : port.assets[i].id = id]
    IN  [assets |-> [id \in DOMAIN s.assets \cup ids |->
                        IF id \in ids
                        THEN [current_price |-> obj(id).current_price,
                              current_value |-> obj(id).current_value,
                              pnl_percentage |-> obj(id).pnl_percentage]
                        ELSE s.assets[id]],
         ports |-> [pid \in DOMAIN s.ports \cup {port.id} |->
                        IF pid = port.id
                        THEN [total_value |-> port.total_value,
                              total_pnl_percentage |-> port.total_pnl_percentage]
                        ELSE s.ports[pid]]]

\* get_portfolio is awaited as the handler (valuate) or as the first step of
\* update, delete, add_asset_to_portfolio and remove_asset.
StartValuate(r, user_id, portfolio_id) ==
    /\ req[r].kind = "idle"
    /\ req' = [req EXCEPT ![r] = [Idle EXCEPT !.kind = "valuate", !.pc = "load",
                                              !.user = user_id, !.pid = portfolio_id]]
    /\ UNCHANGED <<cache, source, portfolios, nextPortfolioId, assets, nextAssetId, sess, contrib,
                   lastVal, win, alerts, nextAlertId, history, lastPass>>

\* repository.py 39-45, service.py 49-51: the first SELECT of get_portfolio_by_id.
\* When it finds no row there is no second SELECT, None is returned and get_portfolio
\* raises 404.
Load(r) ==
    /\ req[r].pc = "load"
    /\ LET portfolio == GetPortfolioById(req[r].pid, sess[r])
       IN  req' = [req EXCEPT ![r] =
                     IF portfolio = None
                     THEN [@ EXCEPT !.pc = "done", !.out = [status |-> 404]]
                     ELSE [@ EXCEPT !.pc = "load_assets", !.port = portfolio]]
    /\ UNCHANGED <<cache, source, portfolios, nextPortfolioId, assets, nextAssetId, sess, contrib,
                   lastVal, win, alerts, nextAlertId, history, lastPass>>

\* Mutant: the owner of the portfolio is not compared with the caller.
LoadAssets_NoOwnerCheck(r) ==
    /\ req[r].pc = "load_assets"
    /\ LET portfolio == Some(SelectInLoad(req[r].port[1], sess[r]))
       IN  IF portfolio[1].assets = << >>
           THEN /\ req' = [req EXCEPT
                            ![r].port = portfolio,
                            ![r].pc = IF req[r].kind = "valuate" THEN "done" ELSE "lookup",
                            ![r].out = IF req[r].kind = "valuate"
                                       THEN [status |-> 200, portfolio |-> portfolio[1]]
                                       ELSE @]
                /\ win' = win
           ELSE LET tasks == [i \in DOMAIN portfolio[1].assets |->
                                 PriceTask(portfolio[1].assets[i].ticker, FALSE)]
                IN  /\ req' = [req EXCEPT ![r].port = portfolio, ![r].pc = "gather",
                                          ![r].tasks = tasks]
                    /\ win' = Began(win, req, tasks)
    /\ UNCHANGED <<cache, source, portfolios, nextPortfolioId, assets, nextAssetId, sess, contrib,
                   lastVal, alerts, nextAlertId, history, lastPass>>

\* repository.py 45-46, service.py 53-59: the second SELECT of get_portfolio_by_id
\* loads the assets; then 403, the early return, or one get_price per asset.
LoadAssets(r) ==
    /\ req[r].pc = "load_assets"
    /\ LET portfolio == Some(SelectInLoad(req[r].port[1], sess[r]))
       IN  IF portfolio[1].user_id # req[r].user
           THEN /\ req' = [req EXCEPT ![r].pc = "done", ![r].out = [status |-> 403]]
                /\ win' = win
           ELSE IF portfolio[1].assets = << >>
           THEN /\ req' = [req EXCEPT
                            ![r].port = portfolio,
                            ![r].pc = IF req[r].kind = "valuate" THEN "done" ELSE "lookup",
                            ![r].out = IF req[r].kind = "valuate"
                                       THEN [status |-> 200, portfolio |-> portfolio[1]]
                                       ELSE @]
                /\ win' = win
           ELSE LET tasks == [i \in DOMAIN portfolio[1].assets |->
                                 PriceTask(portfolio[1].assets[i].ticker, FALSE)]
                IN  /\ req' = [req EXCEPT ![r].port = portfolio, ![r].pc = "gather",
                                          ![r].tasks = tasks]
                    /\ win' = Began(win, req, tasks)
    /\ UNCHANGED <<cache, source, portfolios, nextPortfolioId, assets, nextAssetId, sess, contrib,
                   lastVal, alerts, nextAlertId, history, lastPass>>

\* Mutant: the price of the valuation is written to the unit cost of the rows.
Aggregate_Persists(r) ==
    /\ req[r].kind \in {"valuate", "add", "remove", "update_portfolio", "delete_portfolio"}
    /\ req[r].pc = "gather"
    /\ AllDone(r)
    /\ LET current_prices == [i \in TaskIdx(r) |-> req[r].tasks[i].result]
           portfolio == Valuate(req[r].port[1], current_prices)
           priced(row) == {i \in TaskIdx(r) : /\ req[r].port[1].assets[i].id = row.id
                                               /\ current_prices[i] # None}
       IN  /\ sess' = [sess EXCEPT ![r] = Remember(@, portfolio)]
           /\ assets' = {IF priced(row) = {} THEN row
                         ELSE [row EXCEPT !.avg_buy_price =
                                   current_prices[CHOOSE i \in priced(row) : TRUE][1]] :
                         row \in assets}
           /\ IF req[r].kind = "valuate"
              THEN /\ req' = [req EXCEPT ![r].port = Some(portfolio), ![r].pc = "done",
                                         ![r].out = [status |-> 200, portfolio |-> portfolio]]
                   /\ lastVal' = [lastVal EXCEPT ![portfolio.id] =
                                    IF req[r].tainted THEN NoValuation
                                    ELSE [prev |-> @.cur, cur |-> Some(portfolio)]]
              ELSE /\ req' = [req EXCEPT ![r].port = Some(portfolio), ![r].pc = "lookup"]
                   /\ lastVal' = lastVal
    /\ UNCHANGED <<cache, source, portfolios, nextPortfolioId, nextAssetId, contrib, win, alerts,
                   nextAlertId, history, lastPass>>

\* service.py 61-88: gather has returned; the loop and the totals run without an await.
Aggregate(r) ==
    /\ req[r].kind \in {"valuate", "add", "remove", "update_portfolio", "delete_portfolio"}
    /\ req[r].pc = "gather"
    /\ AllDone(r)
    /\ LET current_prices == [i \in TaskIdx(r) |-> req[r].tasks[i].result]
           portfolio == Valuate(req[r].port[1], current_prices)
       IN  /\ sess' = [sess EXCEPT ![r] = Remember(@, portfolio)]
           /\ IF req[r].kind = "valuate"
              THEN /\ req' = [req EXCEPT ![r].port = Some(portfolio), ![r].pc = "done",
                                         ![r].out = [status |-> 200, portfolio |-> portfolio]]
                   /\ lastVal' = [lastVal EXCEPT ![portfolio.id] =
                                    IF req[r].tainted THEN NoValuation
                                    ELSE [prev |-> @.cur, cur |-> Some(portfolio)]]
              ELSE /\ req' = [req EXCEPT ![r].port = Some(portfolio), ![r].pc = "lookup"]
                   /\ lastVal' = lastVal
    /\ UNCHANGED <<cache, source, portfolios, nextPortfolioId, assets, nextAssetId, contrib, win,
                   alerts, nextAlertId, history, lastPass>>

(***************************************************************************)
(* PortfolioService: create_portfolio and update_portfolio                 *)
(***************************************************************************)
Names == {"Crypto", "Stocks"}

\* schemas.py 56, 74: description is a string or None.
Descriptions == {None, Some("hodl")}

StartCreatePortfolio(r, user_id, name, description) ==
    /\ req[r].kind = "idle"
    /\ req' = [req EXCEPT ![r] = [Idle EXCEPT !.kind = "create_portfolio", !.pc = "check",
                                              !.user = user_id, !.name = name,
                                              !.description = description]]
    /\ UNCHANGED <<cache, source, portfolios, nextPortfolioId, assets, nextAssetId, sess, contrib,
                   lastVal, win, alerts, nextAlertId, history, lastPass>>

\* repository.get_all_by_user
GetAllByUser(rows, user_id) == {p \in rows : p.user_id = user_id}

\* service.py 33-38: the names of the user's portfolios are compared, 409.
CheckName(r) ==
    /\ req[r].kind = "create_portfolio"
    /\ req[r].pc = "check"
    /\ req' = [req EXCEPT ![r] =
                 IF \E p \in GetAllByUser(portfolios, req[r].user) : p.name = req[r].name
                 THEN [@ EXCEPT !.pc = "done", !.out = [status |-> 409]]
                 ELSE [@ EXCEPT !.pc = "insert"]]
    /\ UNCHANGED <<cache, source, portfolios, nextPortfolioId, assets, nextAssetId, sess, contrib,
                   lastVal, win, alerts, nextAlertId, history, lastPass>>

\* models.py 50: UniqueConstraint("user_id", "name"); the rows other than row id
\* that have this owner and this name.
SameName(rows, id, user_id, name) ==
    {p \in rows : p.id # id /\ p.user_id = user_id /\ p.name = name}

\* repository.py 28-30: add, commit; the constraint makes the commit raise
\* IntegrityError, which no handler turns into a 409.  models.py 41: the id is the
\* next value of the table's sequence, which the INSERT takes before the constraint
\* is checked: a failed INSERT uses up a value, and no DELETE gives one back.
InsertPortfolio(r) ==
    /\ req[r].kind = "create_portfolio"
    /\ req[r].pc = "insert"
    /\ nextPortfolioId <= MaxPortfolioId
    /\ nextPortfolioId' = nextPortfolioId + 1
    /\ IF SameName(portfolios, 0, req[r].user, req[r].name) # {}
       THEN /\ portfolios' = portfolios
            /\ req' = [req EXCEPT ![r].pc = "done", ![r].out = [status |-> 500]]
       ELSE /\ portfolios' = portfolios \cup
                  {[id |-> nextPortfolioId, user_id |-> req[r].user,
                    name |-> req[r].name, description |-> req[r].description]}
            /\ req' = [req EXCEPT ![r].pc = "refresh", ![r].pid = nextPortfolioId]
    /\ UNCHANGED <<cache, source, assets, nextAssetId, sess, contrib, lastVal, win,
                 alerts, nextAlertId, history, lastPass>>

\* repository.py 31-32: await session.refresh(portfolio, attribute_names=["assets"])
\* reads the row's assets; when the row is gone it raises InvalidRequestError.
RefreshInserted(r) ==
    /\ req[r].kind = "create_portfolio"
    /\ req[r].pc = "refresh"
    /\ LET row == PortfolioRow(req[r].pid)
       IN  req' = [req EXCEPT ![r].pc = "done",
                              ![r].out = IF row = None THEN [status |-> 500]
                                         ELSE [status |-> 201]]
    /\ UNCHANGED <<cache, source, portfolios, nextPortfolioId, assets, nextAssetId, sess, contrib,
                   lastVal, win, alerts, nextAlertId, history, lastPass>>

\* service.py 100: update_portfolio starts with get_portfolio.
StartUpdatePortfolio(r, user_id, portfolio_id, name, description) ==
    /\ req[r].kind = "idle"
    /\ req' = [req EXCEPT ![r] = [Idle EXCEPT !.kind = "update_portfolio", !.pc = "load",
                                              !.user = user_id, !.pid = portfolio_id,
                                              !.name = name, !.description = description]]
    /\ UNCHANGED <<cache, source, portfolios, nextPortfolioId, assets, nextAssetId, sess, contrib,
                   lastVal, win, alerts, nextAlertId, history, lastPass>>

\* PortfolioUpdate.name is None when the payload leaves it out; the schema rejects
\* the empty string (min_length=1), which stands for None here.
NoName == ""

\* repository.py 64-68: the attributes the request assigns with a value other than
\* the loaded one; the flush writes these columns and no other.
NameChanged(loaded, name) == name # NoName /\ name # loaded.name

DescriptionChanged(loaded, description) ==
    description # None /\ description # loaded.description

UpdatedPortfolio(row, loaded, name, description) ==
    [row EXCEPT !.name = IF NameChanged(loaded, name) THEN name ELSE @,
                !.description = IF DescriptionChanged(loaded, description)
                                THEN description ELSE @]

\* repository.py 64-70: assign the name and the description that are given, then
\* commit.  The flush emits an UPDATE only for a changed column: it raises
\* StaleDataError when the row is gone and IntegrityError when it sets a name that
\* another portfolio of the owner has.  Without an UPDATE the commit writes nothing.
WritePortfolio(r) ==
    /\ req[r].kind = "update_portfolio"
    /\ req[r].pc = "lookup"
    /\ LET loaded == req[r].port[1]
           row == PortfolioRow(req[r].pid)
       IN  IF ~NameChanged(loaded, req[r].name)
              /\ ~DescriptionChanged(loaded, req[r].description)
           THEN /\ portfolios' = portfolios
                /\ req' = [req EXCEPT ![r].pc = "refresh"]
           ELSE IF row = None
           THEN /\ portfolios' = portfolios
                /\ req' = [req EXCEPT ![r].pc = "done", ![r].out = [status |-> 500]]
           ELSE IF /\ NameChanged(loaded, req[r].name)
                   /\ SameName(portfolios, row[1].id, row[1].user_id, req[r].name) # {}
           THEN /\ portfolios' = portfolios
                /\ req' = [req EXCEPT ![r].pc = "done", ![r].out = [status |-> 500]]
           ELSE /\ portfolios' = (portfolios \ {row[1]}) \cup
                      {UpdatedPortfolio(row[1], loaded, req[r].name, req[r].description)}
                /\ req' = [req EXCEPT ![r].pc = "refresh"]
    /\ UNCHANGED <<cache, source, nextPortfolioId, assets, nextAssetId, sess, contrib, lastVal,
                 win, alerts, nextAlertId, history, lastPass>>

\* repository.py 71-72: await session.refresh(portfolio) reads the row again; the
\* portfolio returned has the row's name of that moment.  When the row is gone the
\* refresh raises InvalidRequestError.
RefreshPortfolio(r) ==
    /\ req[r].kind = "update_portfolio"
    /\ req[r].pc = "refresh"
    /\ LET row == PortfolioRow(req[r].pid)
       IN  req' = [req EXCEPT ![r].pc = "done",
                              ![r].out = IF row = None THEN [status |-> 500]
                                         ELSE [status |-> 200, name |-> row[1].name,
                                               description |-> row[1].description]]
    /\ UNCHANGED <<cache, source, portfolios, nextPortfolioId, assets, nextAssetId, sess, contrib,
                   lastVal, win, alerts, nextAlertId, history, lastPass>>

(***************************************************************************)
(* PositionLedger: add_asset_to_portfolio and remove_asset                 *)
(***************************************************************************)
NoContrib == [hist |-> << >>, lost |-> FALSE]

AddsInFlight(pid, ticker) ==
    Cardinality({r \in Slots : req[r].kind = "add" /\ req[r].pc # "done"
                               /\ req[r].pid = pid /\ req[r].ticker = ticker})

StartAdd(r, user_id, portfolio_id, ticker, quantity, avg_buy_price, asset_type) ==
    /\ req[r].kind = "idle"
    /\ nextAssetId + Cardinality({x \in Slots : req[x].kind = "add"}) <= MaxAssetId
    /\ \A pid \in PortfolioIds :
         Len(contrib[<<pid, ticker>>].hist) + AddsInFlight(pid, ticker) < MaxContrib
    /\ req' = [req EXCEPT ![r] = [Idle EXCEPT !.kind = "add", !.pc = "load",
                                              !.user = user_id, !.pid = portfolio_id,
                                              !.ticker = ticker, !.qty = quantity,
                                              !.cost = avg_buy_price, !.atype = asset_type]]
    /\ UNCHANGED <<cache, source, portfolios, nextPortfolioId, assets, nextAssetId, sess, contrib,
                   lastVal, win, alerts, nextAlertId, history, lastPass>>

StartRemove(r, user_id, portfolio_id, ticker) ==
    /\ req[r].kind = "idle"
    /\ req' = [req EXCEPT ![r] = [Idle EXCEPT !.kind = "remove", !.pc = "load",
                                              !.user = user_id, !.pid = portfolio_id,
                                              !.ticker = ticker]]
    /\ UNCHANGED <<cache, source, portfolios, nextPortfolioId, assets, nextAssetId, sess, contrib,
                   lastVal, win, alerts, nextAlertId, history, lastPass>>

\* service.py 126 and 164-166: existing_asset = await get_asset_by_ticker(...)
Lookup(r) ==
    /\ req[r].kind \in {"add", "remove"}
    /\ req[r].pc = "lookup"
    /\ LET existing_asset == GetAssetByTicker(req[r].pid, req[r].ticker, req[r].port[1], sess[r])
       IN  IF req[r].kind = "remove" /\ existing_asset = None
           THEN req' = [req EXCEPT ![r].pc = "done", ![r].out = [status |-> 404]]
           ELSE req' = [req EXCEPT ![r].pc = "commit", ![r].existing = existing_asset]
    /\ UNCHANGED <<cache, source, portfolios, nextPortfolioId, assets, nextAssetId, sess, contrib,
                   lastVal, win, alerts, nextAlertId, history, lastPass>>

\* service.py 130-135: the weighted average in Decimal arithmetic, a decimal number
\* of cents: the two products, the two sums and the quotient are each rounded to
\* the precision of the context.
NewAvgPrice(existing_quantity, existing_avg_buy_price, quantity, avg_buy_price) ==
    LET current_value == ContextRound(existing_quantity * existing_avg_buy_price)
        new_addition_value == ContextRound(quantity * avg_buy_price)
        total_quantity == ContextRound(existing_quantity + quantity)
    IN  IF total_quantity > 0
        THEN DecimalDiv(ContextRound(current_value + new_addition_value), total_quantity)
        ELSE DecimalOf(0)

\* Mutant: the merge is computed in the database from the row as it is at the commit.
MergedRow_FromRow(row, existing, quantity, avg_buy_price) ==
    [row EXCEPT
        !.quantity = RoundQty(ContextRound(row.quantity + quantity)),
        !.avg_buy_price = RoundCost(NewAvgPrice(row.quantity, row.avg_buy_price,
                                                quantity, avg_buy_price))]

\* The UPDATE the flush emits for the merged object: quantity, and avg_buy_price
\* when its new value differs from the loaded one; the row is found by its id.
MergedRow(row, existing, quantity, avg_buy_price) ==
    LET new_avg_price == NewAvgPrice(existing.quantity, existing.avg_buy_price, quantity, avg_buy_price)
    IN  [row EXCEPT
            !.quantity = RoundQty(ContextRound(existing.quantity + quantity)),
            !.avg_buy_price = IF new_avg_price = DecimalOf(existing.avg_buy_price) THEN @
                              ELSE RoundCost(new_avg_price)]

\* Mutant: the merge also takes the asset class of the contribution.
CommitMerge_TakesClass(r) ==
    /\ req[r].kind = "add"
    /\ req[r].pc = "commit"
    /\ req[r].existing # None
    /\ LET existing == req[r].existing[1]
           key == <<req[r].pid, req[r].ticker>>
       IN  IF \E a \in assets : a.id = existing.id
           THEN LET row == AssetRow(existing.id)
                    merged == [MergedRow(row, existing, req[r].qty, req[r].cost)
                                 EXCEPT !.asset_type = req[r].atype]
                IN  /\ assets' = (assets \ {row}) \cup {merged}
                    /\ contrib' = [contrib EXCEPT
                            ![key].hist = Append(@, <<req[r].qty, req[r].cost>>),
                            ![key].lost = @ \/ existing.quantity # row.quantity
                                            \/ existing.avg_buy_price # row.avg_buy_price]
                    /\ req' = Taint([req EXCEPT
                            ![r].pc = "done",
                            ![r].out = [status |-> 201, id |-> existing.id,
                                        quantity |-> ContextRound(existing.quantity + req[r].qty),
                                        avg_buy_price |-> NewAvgPrice(existing.quantity,
                                            existing.avg_buy_price, req[r].qty, req[r].cost),
                                        asset_type |-> existing.asset_type,
                                        merged |-> TRUE, before |-> row]], TRUE)
                    /\ lastVal' = Forget(lastVal, TRUE)
           ELSE \* StaleDataError: the row was deleted after it was read
                /\ req' = [req EXCEPT ![r].pc = "done", ![r].out = [status |-> 500]]
                /\ UNCHANGED <<assets, contrib, lastVal>>
    /\ UNCHANGED <<cache, source, portfolios, nextPortfolioId, nextAssetId, sess, win, alerts,
                   nextAlertId, history, lastPass>>

\* service.py 128-141: merge into the existing row and commit.
CommitMerge(r) ==
    /\ req[r].kind = "add"
    /\ req[r].pc = "commit"
    /\ req[r].existing # None
    /\ LET existing == req[r].existing[1]
           key == <<req[r].pid, req[r].ticker>>
       IN  IF \E a \in assets : a.id = existing.id
           THEN LET row == AssetRow(existing.id)
                    merged == MergedRow(row, existing, req[r].qty, req[r].cost)
                IN  /\ assets' = (assets \ {row}) \cup {merged}
                    /\ contrib' = [contrib EXCEPT
                            ![key].hist = Append(@, <<req[r].qty, req[r].cost>>),
                            ![key].lost = @ \/ existing.quantity # row.quantity
                                            \/ existing.avg_buy_price # row.avg_buy_price]
                    /\ req' = Taint([req EXCEPT
                            ![r].pc = "done",
                            ![r].out = [status |-> 201, id |-> existing.id,
                                        quantity |-> ContextRound(existing.quantity + req[r].qty),
                                        avg_buy_price |-> NewAvgPrice(existing.quantity,
                                            existing.avg_buy_price, req[r].qty, req[r].cost),
                                        asset_type |-> existing.asset_type,
                                        merged |-> TRUE, before |-> row]], TRUE)
                    /\ lastVal' = Forget(lastVal, TRUE)
           ELSE \* StaleDataError: the row was deleted after it was read
                /\ req' = [req EXCEPT ![r].pc = "done", ![r].out = [status |-> 500]]
                /\ UNCHANGED <<assets, contrib, lastVal>>
    /\ UNCHANGED <<cache, source, portfolios, nextPortfolioId, nextAssetId, sess, win, alerts,
                   nextAlertId, history, lastPass>>

\* service.py 143-151, repository.py 92-93: session.add(asset), await commit.  The
\* sequence gives the id before the constraints are checked, so that a failed
\* INSERT uses up an id as well.
CommitCreate(r) ==
    /\ req[r].kind = "add"
    /\ req[r].pc = "commit"
    /\ req[r].existing = None
    /\ LET key == <<req[r].pid, req[r].ticker>>
           new_asset == [id |-> nextAssetId, portfolio_id |-> req[r].pid,
                         ticker |-> req[r].ticker, quantity |-> RoundQty(req[r].qty),
                         avg_buy_price |-> req[r].cost, asset_type |-> req[r].atype]
       IN  /\ nextAssetId' = nextAssetId + 1
           /\ IF \/ \E a \in assets : a.portfolio_id = req[r].pid /\ a.ticker = req[r].ticker
                 \/ PortfolioRow(req[r].pid) = None
              THEN \* IntegrityError: uq_asset_portfolio_ticker or the foreign key
                   /\ req' = [req EXCEPT ![r].pc = "done", ![r].out = [status |-> 500]]
                   /\ UNCHANGED <<assets, contrib, lastVal>>
              ELSE /\ assets' = assets \cup {new_asset}
                   /\ contrib' = [contrib EXCEPT ![key] =
                                    [hist |-> << <<req[r].qty, req[r].cost>> >>, lost |-> FALSE]]
                   /\ req' = Taint([req EXCEPT
                               ![r].pc = "refresh",
                               ![r].out = [status |-> 0, id |-> new_asset.id,
                                           before |-> new_asset]], TRUE)
                   /\ lastVal' = Forget(lastVal, TRUE)
    /\ UNCHANGED <<cache, source, portfolios, nextPortfolioId, sess, win, alerts, nextAlertId, history,
                   lastPass>>

\* repository.py 94-95: await session.refresh(asset) reads the row again by its id;
\* the asset returned has the row's values of that moment.  When the row is gone the
\* refresh raises InvalidRequestError, which no handler catches.
RefreshCreate(r) ==
    /\ req[r].kind = "add"
    /\ req[r].pc = "refresh"
    /\ IF \E a \in assets : a.id = req[r].out.id
       THEN LET row == AssetRow(req[r].out.id)
            IN  req' = [req EXCEPT
                          ![r].pc = "done",
                          ![r].out = [status |-> 201, id |-> row.id,
                                      quantity |-> row.quantity,
                                      avg_buy_price |-> DecimalOf(row.avg_buy_price),
                                      asset_type |-> row.asset_type,
                                      merged |-> FALSE, before |-> req[r].out.before]]
       ELSE req' = [req EXCEPT ![r].pc = "done", ![r].out = [status |-> 500]]
    /\ UNCHANGED <<cache, source, portfolios, nextPortfolioId, assets, nextAssetId, sess, contrib,
                   lastVal, win, alerts, nextAlertId, history, lastPass>>

\* service.py 168, repository.delete_asset: DELETE by id and commit.
CommitDelete(r) ==
    /\ req[r].kind = "remove"
    /\ req[r].pc = "commit"
    /\ LET asset == req[r].existing[1]
           key == <<req[r].pid, req[r].ticker>>
       IN  IF \E a \in assets : a.id = asset.id
           THEN /\ assets' = assets \ {AssetRow(asset.id)}
                /\ contrib' = [contrib EXCEPT ![key] = NoContrib]
                /\ req' = Taint([req EXCEPT ![r].pc = "done", ![r].out = [status |-> 204]], TRUE)
                /\ lastVal' = Forget(lastVal, TRUE)
           ELSE \* another request deleted the row first: the DELETE matches no row,
                \* which the mapper (confirm_deleted_rows) only warns about
                /\ req' = [req EXCEPT ![r].pc = "done", ![r].out = [status |-> 204]]
                /\ UNCHANGED <<assets, contrib, lastVal>>
    /\ UNCHANGED <<cache, source, portfolios, nextPortfolioId, nextAssetId, sess, win, alerts,
                   nextAlertId, history, lastPass>>

(***************************************************************************)
(* PortfolioService: delete_portfolio                                      *)
(***************************************************************************)
\* service.py 106-111: delete_portfolio starts with get_portfolio.
StartDeletePortfolio(r, user_id, portfolio_id) ==
    /\ req[r].kind = "idle"
    /\ req' = [req EXCEPT ![r] = [Idle EXCEPT !.kind = "delete_portfolio", !.pc = "load",
                                              !.user = user_id, !.pid = portfolio_id]]
    /\ UNCHANGED <<cache, source, portfolios, nextPortfolioId, assets, nextAssetId, sess, contrib,
                   lastVal, win, alerts, nextAlertId, history, lastPass>>

\* Mutant: the rows of the portfolio's assets stay in the table.
AssetsAfterDelete_NoCascade(rows, portfolio_id) == rows

\* models.py 48, 76: cascade="all, delete-orphan" deletes the loaded assets,
\* ondelete="CASCADE" of assets.portfolio_id the ones added since.
AssetsAfterDelete(rows, portfolio_id) == {a \in rows : a.portfolio_id # portfolio_id}

\* repository.py 74-79: session.delete(portfolio), commit.  A DELETE that matches no
\* row is only warned about.
RemovePortfolio(r) ==
    /\ req[r].kind = "delete_portfolio"
    /\ req[r].pc = "lookup"
    /\ LET row == PortfolioRow(req[r].pid)
           gone == {a.ticker : a \in assets \ AssetsAfterDelete(assets, req[r].pid)}
       IN  /\ portfolios' = IF row = None THEN portfolios ELSE portfolios \ {row[1]}
           /\ assets' = AssetsAfterDelete(assets, req[r].pid)
           /\ contrib' = [k \in DOMAIN contrib |->
                             IF k[1] = req[r].pid /\ k[2] \in gone THEN NoContrib ELSE contrib[k]]
           /\ req' = Taint([req EXCEPT ![r].pc = "done", ![r].out = [status |-> 204]], TRUE)
           /\ lastVal' = Forget(lastVal, TRUE)
    /\ UNCHANGED <<cache, source, nextPortfolioId, nextAssetId, sess, win, alerts, nextAlertId,
                 history, lastPass>>

(***************************************************************************)
(* AlertEvaluator and refresh job: market_data/tasks.py                    *)
(***************************************************************************)
AlertConditions == {"ABOVE", "BELOW"}

\* An Alert as AlertService.create_alert builds it; is_active defaults to true.
NewAlert(id, user_id, ticker, target_price, condition) ==
    [id |-> id, user_id |-> user_id, ticker |-> ticker, target_price |-> target_price,
     condition |-> condition, is_active |-> TRUE]

\* tasks.py 38: the key is built from the alert's ticker as stored.
AlertCacheKey(ticker) == "price:" \o ticker

\* Mutant: the filter on is_active is missing.
GetAllActive_All(rows) ==
    LET ids == SortedIds({a.id : a \in rows})
    IN  [i \in DOMAIN ids |-> CHOOSE a \in rows : a.id = ids[i]]

\* repository.get_all_active: the rows with is_active, here in id order.
GetAllActive(rows) ==
    LET ids == SortedIds({a.id : a \in {x \in rows : x.is_active}})
    IN  [i \in DOMAIN ids |-> CHOOSE a \in rows : a.id = ids[i]]

\* Mutant: the comparison includes the target itself (>=, <=).
IsTriggered_Inclusive(alert, current_price) ==
    \/ alert.condition = "ABOVE" /\ current_price >= alert.target_price
    \/ alert.condition = "BELOW" /\ current_price <= alert.target_price

\* tasks.py 44-52: current_price = float(cached_price_str), target = float(target_price).
IsTriggered(alert, current_price) ==
    \/ alert.condition = "ABOVE" /\ current_price > alert.target_price
    \/ alert.condition = "BELOW" /\ current_price < alert.target_price

\* Mutant: the session is committed as soon as an alert has fired.
NextAlert_CommitEach(rq) ==
    LET j == [rq.job EXCEPT !.idx = @ + 1, !.current_price = None]
    IN  IF j.triggered_count > 0 THEN [rq EXCEPT !.job = j, !.pc = "commit"]
        ELSE IF j.idx <= Len(j.active) THEN [rq EXCEPT !.job = j, !.pc = "check"]
        ELSE [rq EXCEPT !.job = [j EXCEPT !.returned = Some(j.triggered_count)],
                        !.pc = "finally"]

\* tasks.py 37, 68-71: the loop goes on to the next alert, or ends: with a commit
\* when something was triggered, with the return otherwise.
NextAlert(rq) ==
    LET j == [rq.job EXCEPT !.idx = @ + 1, !.current_price = None]
    IN  IF j.idx <= Len(j.active) THEN [rq EXCEPT !.job = j, !.pc = "check"]
        ELSE IF j.triggered_count > 0 THEN [rq EXCEPT !.job = j, !.pc = "commit"]
        ELSE [rq EXCEPT !.job = [j EXCEPT !.returned = Some(j.triggered_count)],
                        !.pc = "finally"]

\* tasks.py 33-35: active_alerts = await alert_repo.get_all_active()
LoadActive(r) ==
    /\ req[r].kind = "refresh"
    /\ req[r].pc = "active"
    /\ req' = [req EXCEPT ![r] = NextAlert([@ EXCEPT !.job.active = GetAllActive(alerts),
                                                      !.job.idx = 0])]
    /\ UNCHANGED <<cache, source, portfolios, nextPortfolioId, assets, nextAssetId, sess, contrib,
                   lastVal, win, alerts, nextAlertId, history>>
    /\ lastPass' = PassEnded(lastPass, req[r], req'[r])

\* Mutant: an alert without a cached price is evaluated against the price 0.0.
Checked_ZeroForMissing(alert, cached_price_str) ==
    LET current_price == IF Truthy(cached_price_str) THEN StrFloat(cached_price_str[1]) ELSE 0
    IN  [id |-> alert.id, seen |-> cached_price_str,
         is_triggered |-> IsTriggered(alert, current_price)]

\* tasks.py 38-52 for one alert and the string redis.get returned for it.
Checked(alert, cached_price_str) ==
    [id |-> alert.id, seen |-> cached_price_str,
     is_triggered |-> IF ~Truthy(cached_price_str) THEN FALSE
                      ELSE IsTriggered(alert, StrFloat(cached_price_str[1]))]

\* tasks.py 38-54: cached_price_str = await redis_client.get(cache_key).  The await
\* is in no try statement: an exception of the cache backend (raised) leaves the
\* loop, _process_alerts and the session block, after the alerts before this one
\* were notified and before anything is committed.
EvalCheck(r, raised) ==
    /\ req[r].kind = "refresh"
    /\ req[r].pc = "check"
    /\ LET alert == req[r].job.active[req[r].job.idx]
           cached_price_str == RedisGet(cache, AlertCacheKey(alert.ticker))
           c == Checked(alert, cached_price_str)
           seen == [req[r] EXCEPT !.job.checked = Append(@, c)]
       IN  req' = [req EXCEPT ![r] =
                     IF raised
                     THEN [@ EXCEPT !.job.error = "read", !.pc = "finally"]
                     ELSE IF c.is_triggered
                     THEN [seen EXCEPT !.pc = "notify",
                                       !.job.current_price = Some(StrFloat(cached_price_str[1]))]
                     ELSE NextAlert(seen)]
    /\ UNCHANGED <<cache, source, portfolios, nextPortfolioId, assets, nextAssetId, sess, contrib,
                   lastVal, win, alerts, nextAlertId, history>>
    /\ lastPass' = PassEnded(lastPass, req[r], req'[r])

\* tasks.py 57-66: await notification_service.send_price_alert_email(...), then
\* alert.is_active = False and the count; an exception of the sink leaves the loop,
\* _process_alerts and the session block.
Notify(r, delivered) ==
    /\ req[r].kind = "refresh"
    /\ req[r].pc = "notify"
    /\ LET alert == req[r].job.active[req[r].job.idx]
           mail == [user_id |-> alert.user_id, ticker |-> alert.ticker,
                    price |-> req[r].job.current_price[1],
                    condition |-> alert.condition, target |-> alert.target_price]
       IN  req' = [req EXCEPT ![r] =
                     IF delivered
                     THEN NextAlert([@ EXCEPT !.job.sent = Append(@, mail),
                                              !.job.fired = @ \cup {alert.id},
                                              !.job.triggered_count = @ + 1])
                     ELSE [@ EXCEPT !.job.error = "notify", !.pc = "finally"]]
    /\ UNCHANGED <<cache, source, portfolios, nextPortfolioId, assets, nextAssetId, sess, contrib,
                   lastVal, win, alerts, nextAlertId, history>>
    /\ lastPass' = PassEnded(lastPass, req[r], req'[r])

\* The unit of work checks the row count of an UPDATE it sends for one object; the
\* UPDATEs of several objects go out as one executemany, whose row count the
\* driver does not report and the flush does not check.
ChecksRowCount(fired) == Cardinality(fired) = 1

\* tasks.py 68-71: await session.commit() writes is_active = false for the alerts
\* changed in the session.  When one alert was changed and its row is gone, the
\* flush fails (StaleDataError) and nothing is written; of several changed alerts
\* the rows that are still there are written and the commit succeeds.
CommitAlerts(r) ==
    /\ req[r].kind = "refresh"
    /\ req[r].pc = "commit"
    /\ IF req[r].job.fired \subseteq {a.id : a \in alerts} \/ ~ChecksRowCount(req[r].job.fired)
       THEN /\ alerts' = {IF a.id \in req[r].job.fired THEN [a EXCEPT !.is_active = FALSE]
                          ELSE a : a \in alerts}
            /\ req' = [req EXCEPT ![r].pc = "finally",
                                  ![r].job.returned = Some(req[r].job.triggered_count)]
       ELSE /\ alerts' = alerts
            /\ req' = [req EXCEPT ![r].pc = "finally", ![r].job.error = "commit"]
    /\ UNCHANGED <<cache, source, portfolios, nextPortfolioId, assets, nextAssetId, sess, contrib,
                   lastVal, win, nextAlertId, history>>
    /\ lastPass' = PassEnded(lastPass, req[r], req'[r])

\* set(...) | set(...) as a list; the order of the tasks of a gather does not matter.
TickerOrder == <<"BTC", "ETH", "AAPL">>

TickerList(tickers) == SelectSeq(TickerOrder, LAMBDA t : t \in tickers)

\* tasks.py 81-91: the handles are acquired and the session is opened.
StartRefresh(r) ==
    /\ req[r].kind = "idle"
    /\ req' = [req EXCEPT ![r] = [Idle EXCEPT !.kind = "refresh", !.pc = "select_assets"]]
    /\ UNCHANGED <<cache, source, portfolios, nextPortfolioId, assets, nextAssetId, sess, contrib,
                   lastVal, win, alerts, nextAlertId, history, lastPass>>

\* tasks.py 92, 95: select(Asset.ticker).distinct()
SelectAssetTickers(r) ==
    /\ req[r].kind = "refresh"
    /\ req[r].pc = "select_assets"
    /\ req' = [req EXCEPT ![r].job.tickers = {a.ticker : a \in assets},
                          ![r].pc = "select_alerts"]
    /\ UNCHANGED <<cache, source, portfolios, nextPortfolioId, assets, nextAssetId, sess, contrib,
                   lastVal, win, alerts, nextAlertId, history, lastPass>>

\* Mutant: the tickers of all alerts are refreshed, the inactive ones too.
AlertTickers_All(rows) == {a.ticker : a \in rows}

\* tasks.py 93: select(Alert.ticker).where(Alert.is_active == True).distinct()
AlertTickers(rows) == {a.ticker : a \in {x \in rows : x.is_active}}

\* tasks.py 96-103: the union, and one forced get_price per ticker of it.
SelectAlertTickers(r) ==
    /\ req[r].kind = "refresh"
    /\ req[r].pc = "select_alerts"
    /\ LET tickers == req[r].job.tickers \cup AlertTickers(alerts)
           list == TickerList(tickers)
       IN  req' = [req EXCEPT ![r].job.tickers = tickers,
                              ![r].tasks = [i \in DOMAIN list |-> PriceTask(list[i], TRUE)],
                              ![r].pc = IF tickers # {} THEN "gather" ELSE "active"]
    /\ UNCHANGED <<cache, source, portfolios, nextPortfolioId, assets, nextAssetId, sess, contrib,
                   lastVal, win, alerts, nextAlertId, history, lastPass>>

\* Mutant: _process_alerts is called without awaiting the gather.
GatherDone_NoJoin(r) ==
    /\ req[r].kind = "refresh"
    /\ req[r].pc = "gather"
    /\ req' = [req EXCEPT ![r].pc = "active"]
    /\ UNCHANGED <<cache, source, portfolios, nextPortfolioId, assets, nextAssetId, sess, contrib,
                   lastVal, win, alerts, nextAlertId, history, lastPass>>

\* tasks.py 103-105: gather has returned, _process_alerts is called.
GatherDone(r) ==
    /\ req[r].kind = "refresh"
    /\ req[r].pc = "gather"
    /\ AllDone(r)
    /\ req' = [req EXCEPT ![r].pc = "active"]
    /\ UNCHANGED <<cache, source, portfolios, nextPortfolioId, assets, nextAssetId, sess, contrib,
                   lastVal, win, alerts, nextAlertId, history, lastPass>>

\* tasks.py 108-109, 150-151: finally: await redis_client.aclose(); an exception of
\* aclose leaves the finally block.
ReleaseRedis(r, closed) ==
    /\ req[r].kind \in {"refresh", "snapshot"}
    /\ req[r].pc = "finally"
    /\ req' = [req EXCEPT ![r].job.aclose = @ + 1,
                          ![r].job.error = IF closed THEN @ ELSE "aclose",
                          ![r].pc = IF closed THEN "dispose" ELSE "done",
                          ![r].out = IF closed THEN @ ELSE [status |-> 500]]
    /\ UNCHANGED <<cache, source, portfolios, nextPortfolioId, assets, nextAssetId, sess, contrib,
                   lastVal, win, alerts, nextAlertId, history, lastPass>>

\* tasks.py 110, 152: await local_engine.dispose(), then the job returns or the
\* exception of the try block goes on to the caller.
DisposeEngine(r, disposed) ==
    /\ req[r].kind \in {"refresh", "snapshot"}
    /\ req[r].pc = "dispose"
    /\ req' = [req EXCEPT ![r].job.dispose = @ + 1,
                          ![r].job.error = IF disposed THEN @ ELSE "dispose",
                          ![r].pc = "done",
                          ![r].out = [status |-> IF disposed /\ req[r].job.error = ""
                                                 THEN 200 ELSE 500]]
    /\ UNCHANGED <<cache, source, portfolios, nextPortfolioId, assets, nextAssetId, sess, contrib,
                   lastVal, win, alerts, nextAlertId, history, lastPass>>

(***************************************************************************)
(* The snapshot job: _create_snapshots_logic, create_daily_snapshots and   *)
(* PortfolioRepository.create_portfolio_history                            *)
(***************************************************************************)
Dates == {1, 2}

\* tasks.py 129-139: the handles, the session, the service.
StartSnapshot(r, today) ==
    /\ req[r].kind = "idle"
    /\ req' = [req EXCEPT ![r] = [Idle EXCEPT !.kind = "snapshot", !.pc = "load_all",
                                              !.job.today = today]]
    /\ UNCHANGED <<cache, source, portfolios, nextPortfolioId, assets, nextAssetId, sess, contrib,
                   lastVal, win, alerts, nextAlertId, history, lastPass>>

\* repository.py 117-118: the first SELECT of get_all_portfolios_system, in a
\* session that holds no object yet: every row of portfolios.
GetAllPortfoliosSystem ==
    LET ids == SortedIds({p.id : p \in portfolios})
    IN  [i \in DOMAIN ids |-> GetPortfolioById(ids[i], NoSession)[1]]

\* The second SELECT of its selectinload: the assets of the rows the first returned.
SelectInLoadAll(ports) == [i \in DOMAIN ports |-> SelectInLoad(ports[i], NoSession)]

\* create_daily_snapshots goes on to the next portfolio: one get_price per asset,
\* or the commit after the last one.
NextHolding(rq) ==
    IF rq.job.idx < Len(rq.job.ports)
    THEN LET port == rq.job.ports[rq.job.idx + 1]
         IN  [rq EXCEPT !.job.idx = @ + 1, !.pc = "gather",
                        !.tasks = [i \in DOMAIN port.assets |->
                                      PriceTask(port.assets[i].ticker, FALSE)]]
    ELSE [rq EXCEPT !.pc = "commit", !.tasks = << >>]

\* create_daily_snapshots awaits get_all_portfolios_system: the first SELECT.  When
\* it returns no row there is no second one and the job goes on to its commit.
LoadAll(r) ==
    /\ req[r].kind = "snapshot"
    /\ req[r].pc = "load_all"
    /\ req' = [req EXCEPT ![r] =
                 IF GetAllPortfoliosSystem = << >> THEN NextHolding(@)
                 ELSE [@ EXCEPT !.pc = "load_all_assets", !.job.ports = GetAllPortfoliosSystem]]
    /\ UNCHANGED <<cache, source, portfolios, nextPortfolioId, assets, nextAssetId, sess, contrib,
                   lastVal, win, alerts, nextAlertId, history, lastPass>>

\* The second SELECT of get_all_portfolios_system; the loop starts with the first
\* portfolio.
LoadAllAssets(r) ==
    /\ req[r].kind = "snapshot"
    /\ req[r].pc = "load_all_assets"
    /\ req' = [req EXCEPT ![r] =
                 NextHolding([@ EXCEPT !.job.ports = SelectInLoadAll(req[r].job.ports)])]
    /\ win' = Began(win, req, req'[r].tasks)
    /\ UNCHANGED <<cache, source, portfolios, nextPortfolioId, assets, nextAssetId, sess, contrib,
                   lastVal, alerts, nextAlertId, history, lastPass>>

\* Mutant: the snapshot carries the cost of the holding, not its value.
SnapshotOf_Cost(port, current_prices, today) ==
    LET zipped == [i \in DOMAIN port.assets |-> <<port.assets[i], current_prices[i]>>]
        valued == Valuate(port, current_prices)
    IN  [portfolio_id |-> port.id, date |-> today,
         total_value |-> Some(SumOf([i \in DOMAIN zipped |-> ResolvedCost(zipped, i)])),
         total_pnl_percentage |-> valued.total_pnl_percentage]

\* The PortfolioHistory create_daily_snapshots builds for one portfolio: today's
\* date, the totals of the valuation.
SnapshotOf(port, current_prices, today) ==
    LET valued == Valuate(port, current_prices)
    IN  [portfolio_id |-> port.id, date |-> today,
         total_value |-> valued.total_value,
         total_pnl_percentage |-> valued.total_pnl_percentage]

SameDay(rows, h) == {x \in rows : x.portfolio_id = h.portfolio_id /\ x.date = h.date}

\* repository.py 126-140: select by (portfolio_id, date); the existing object is
\* changed or the new one is added to the session.
Staged(rows, h) ==
    IF SameDay(rows, h) # {}
    THEN LET existing == CHOOSE x \in SameDay(rows, h) : \A y \in SameDay(rows, h) : x.id <= y.id
         IN  [op |-> "update", id |-> existing.id, h |-> h, was |-> Some(existing)]
    ELSE [op |-> "insert", id |-> 0, h |-> h, was |-> None]

\* The gather of one portfolio has returned: valuation, create_portfolio_history.
UpsertHistory(r) ==
    /\ req[r].kind = "snapshot"
    /\ req[r].pc = "gather"
    /\ AllDone(r)
    /\ LET port == req[r].job.ports[req[r].job.idx]
           current_prices == [i \in TaskIdx(r) |-> req[r].tasks[i].result]
           h == SnapshotOf(port, current_prices, req[r].job.today)
       IN  req' = [req EXCEPT ![r] =
                     NextHolding([@ EXCEPT !.job.pending = Append(@, Staged(history.rows, h)),
                                           !.job.count = @ + 1])]
    /\ win' = Began(win, req, req'[r].tasks)
    /\ UNCHANGED <<cache, source, portfolios, nextPortfolioId, assets, nextAssetId, sess, contrib,
                   lastVal, alerts, nextAlertId, history, lastPass>>

\* A get_price of the gather raises (stage "valuate": the cache backend fails), or
\* the SELECT of create_portfolio_history raises (stage "upsert"). Nothing catches it
\* before tasks.py 147-149, which logs and raises again: the session is closed
\* without a commit and the job goes to its finally block, while the other
\* get_price calls of the gather run on.
SnapshotFault(r, stage) ==
    /\ req[r].kind = "snapshot"
    /\ req[r].pc = "gather"
    /\ \/ /\ stage = "valuate"
          /\ \E i \in TaskIdx(r) :
                /\ req[r].tasks[i].pc \in {"get", "set"}
                /\ req' = [req EXCEPT ![r].tasks[i] = Raised(@), ![r].job.error = stage,
                                      ![r].pc = "finally"]
       \/ /\ stage = "upsert"
          /\ AllDone(r)
          /\ req' = [req EXCEPT ![r].job.error = stage, ![r].tasks = << >>,
                                ![r].pc = "finally"]
    /\ UNCHANGED <<cache, source, portfolios, nextPortfolioId, assets, nextAssetId, sess, contrib,
                   lastVal, win, alerts, nextAlertId, history, lastPass>>

\* The flush of one pending object: an INSERT, or an UPDATE by id of the columns
\* whose staged value differs from the value the object was loaded with (no UPDATE
\* when neither differs).
Flushed(rows, w) ==
    IF w.op = "update"
    THEN {IF x.id = w.id
          THEN [x EXCEPT
                  !.total_value = IF w.h.total_value # w.was[1].total_value
                                  THEN w.h.total_value ELSE @,
                  !.total_pnl_percentage =
                      IF w.h.total_pnl_percentage # w.was[1].total_pnl_percentage
                      THEN w.h.total_pnl_percentage ELSE @]
          ELSE x : x \in rows}
    ELSE rows \cup {[id |-> Cardinality(rows) + 1, portfolio_id |-> w.h.portfolio_id,
                     date |-> w.h.date, total_value |-> w.h.total_value,
                     total_pnl_percentage |-> w.h.total_pnl_percentage]}

RECURSIVE FlushedAll(_, _)
FlushedAll(rows, pending) ==
    IF pending = << >> THEN rows ELSE FlushedAll(Flushed(rows, Head(pending)), Tail(pending))

\* An INSERT meets a row of the same (portfolio_id, date) and the table has the
\* unique constraint.
Conflicts(h, pending) ==
    h.uq /\ \E i \in DOMAIN pending :
                pending[i].op = "insert" /\ SameDay(h.rows, pending[i].h) # {}

\* repository.commit, once, after the last portfolio; then the count is returned.
CommitSnapshots(r) ==
    /\ req[r].kind = "snapshot"
    /\ req[r].pc = "commit"
    /\ IF Conflicts(history, req[r].job.pending)
       THEN /\ history' = history
            /\ req' = [req EXCEPT ![r].job.error = "commit", ![r].pc = "finally"]
       ELSE /\ history' = [history EXCEPT !.rows = FlushedAll(@, req[r].job.pending)]
            /\ req' = [req EXCEPT ![r].job.returned = Some(req[r].job.count),
                                  ![r].pc = "finally"]
    /\ UNCHANGED <<cache, source, portfolios, nextPortfolioId, assets, nextAssetId, sess, contrib,
                   lastVal, win, alerts, nextAlertId, lastPass>>

(***************************************************************************)
(* AlertService: create_alert, update_alert, delete_alert                  *)
(***************************************************************************)
\* service.py 179-184, repository.py 151-156: the commit of a create_alert of a
\* client outside the slots, whose answer no claim reads.
CreateAlert(user_id, ticker, target_price, condition) ==
    /\ nextAlertId <= MaxAlertId
    /\ alerts' = alerts \cup {NewAlert(nextAlertId, user_id, ticker, target_price, condition)}
    /\ nextAlertId' = nextAlertId + 1
    /\ UNCHANGED <<cache, source, portfolios, nextPortfolioId, assets, nextAssetId, req, sess, contrib,
                   lastVal, win, history>>
    /\ lastPass' = NoPass

RECURSIVE AllIn(_, _)
AllIn(t, alphabet) ==
    Len(t) = 0 \/ (IndexOf(alphabet, SubSeq(t, 1, 1), 1) > 0 /\ AllIn(SubSeq(t, 2, Len(t)), alphabet))

\* Mutant: the pattern also accepts lower-case letters.
ValidTicker_AnyCase(ticker) ==
    Len(ticker) >= 1 /\ Len(ticker) <= 20
        /\ AllIn(ticker, UpperLetters \o LowerLetters \o Digits)

\* schemas.py 108, 136: Field(min_length=1, max_length=20, pattern="^[A-Z0-9]+$")
ValidTicker(ticker) ==
    Len(ticker) >= 1 /\ Len(ticker) <= 20 /\ AllIn(ticker, UpperLetters \o Digits)

\* router.py 57-66: POST /alerts with an AlertCreate payload.
PostAlert(r, user_id, ticker, target_price, condition) ==
    /\ req[r].kind = "idle"
    /\ req' = [req EXCEPT ![r] = [Idle EXCEPT !.kind = "create_alert", !.pc = "validate",
                                              !.user = user_id, !.ticker = ticker,
                                              !.cost = target_price, !.atype = condition]]
    /\ UNCHANGED <<cache, source, portfolios, nextPortfolioId, assets, nextAssetId, sess, contrib,
                   lastVal, win, alerts, nextAlertId, history, lastPass>>

\* The payload is validated (422 when it fails), then service.py 179-184 and
\* repository.py 155-156: Alert(**alert_in.model_dump(), user_id=user_id), add, await
\* commit.  The refresh of line 157 is the request's next step.
ValidateAlert(r) ==
    /\ req[r].kind = "create_alert"
    /\ req[r].pc = "validate"
    /\ nextAlertId <= MaxAlertId
    /\ IF ValidTicker(req[r].ticker)
       THEN /\ alerts' = alerts \cup {NewAlert(nextAlertId, req[r].user, req[r].ticker,
                                                req[r].cost, req[r].atype)}
            /\ nextAlertId' = nextAlertId + 1
            /\ req' = [req EXCEPT ![r].pc = "refresh", ![r].alert_id = nextAlertId]
            /\ lastPass' = NoPass
       ELSE /\ req' = [req EXCEPT ![r].pc = "done", ![r].out = [status |-> 422]]
            /\ UNCHANGED <<alerts, nextAlertId, lastPass>>
    /\ UNCHANGED <<cache, source, portfolios, nextPortfolioId, assets, nextAssetId, sess, contrib,
                   lastVal, win, history>>

\* schemas.py 136-139: the fields of AlertUpdate.
AlertFields == {"ticker", "target_price", "condition", "is_active"}

\* An AlertUpdate payload: a field is None when the payload leaves it out, Some(v)
\* when it is sent with a value, and named in nulls when it is sent as null.
NoUpdate ==
    [ticker |-> None, target_price |-> None, condition |-> None, is_active |-> None,
     nulls |-> {}]

\* schemas.py 136-137: the constraints on the values sent (null passes each).
ValidUpdate(update) ==
    /\ update.ticker # None => ValidTicker(update.ticker[1])
    /\ update.target_price # None => update.target_price[1] > 0

\* router.py 80-90: PATCH /alerts/{alert_id}; a payload that fails validation is
\* answered 422 before the service is called.
StartUpdateAlert(r, user_id, alert_id, update_data) ==
    /\ req[r].kind = "idle"
    /\ req' = [req EXCEPT ![r] =
                 IF ValidUpdate(update_data)
                 THEN [Idle EXCEPT !.kind = "update_alert", !.pc = "find", !.user = user_id,
                                   !.alert_id = alert_id, !.update = update_data]
                 ELSE [Idle EXCEPT !.kind = "update_alert", !.pc = "done", !.user = user_id,
                                   !.alert_id = alert_id, !.update = update_data,
                                   !.out = [status |-> 422]]]
    /\ UNCHANGED <<cache, source, portfolios, nextPortfolioId, assets, nextAssetId, sess, contrib,
                   lastVal, win, alerts, nextAlertId, history, lastPass>>

StartDeleteAlert(r, user_id, alert_id) ==
    /\ req[r].kind = "idle"
    /\ req' = [req EXCEPT ![r] = [Idle EXCEPT !.kind = "delete_alert", !.pc = "find",
                                              !.user = user_id, !.alert_id = alert_id]]
    /\ UNCHANGED <<cache, source, portfolios, nextPortfolioId, assets, nextAssetId, sess, contrib,
                   lastVal, win, alerts, nextAlertId, history, lastPass>>

\* repository.get_alert_by_id
GetAlertById(rows, alert_id) ==
    IF \E a \in rows : a.id = alert_id THEN Some(CHOOSE a \in rows : a.id = alert_id) ELSE None

\* Mutant: the comparison of alert.user_id with the caller is missing.
FindAlert_NoOwnerCheck(r) ==
    /\ req[r].kind \in {"update_alert", "delete_alert"}
    /\ req[r].pc = "find"
    /\ LET alert == GetAlertById(alerts, req[r].alert_id)
       IN  req' = [req EXCEPT ![r] =
                     IF alert = None THEN [@ EXCEPT !.pc = "done", !.out = [status |-> 404]]
                     ELSE [@ EXCEPT !.pc = "write", !.alert = alert]]
    /\ UNCHANGED <<cache, source, portfolios, nextPortfolioId, assets, nextAssetId, sess, contrib,
                   lastVal, win, alerts, nextAlertId, history, lastPass>>

\* service.py 196-201, 209-214: load, 404, 403.
FindAlert(r) ==
    /\ req[r].kind \in {"update_alert", "delete_alert"}
    /\ req[r].pc = "find"
    /\ LET alert == GetAlertById(alerts, req[r].alert_id)
       IN  req' = [req EXCEPT ![r] =
                     IF alert = None THEN [@ EXCEPT !.pc = "done", !.out = [status |-> 404]]
                     ELSE IF alert[1].user_id # req[r].user
                     THEN [@ EXCEPT !.pc = "done", !.out = [status |-> 403]]
                     ELSE [@ EXCEPT !.pc = "write", !.alert = alert]]
    /\ UNCHANGED <<cache, source, portfolios, nextPortfolioId, assets, nextAssetId, sess, contrib,
                   lastVal, win, alerts, nextAlertId, history, lastPass>>

\* repository.py 189-192: model_dump(exclude_unset=True) keeps every field the
\* payload sent, a null included; setattr puts each on the loaded object.  The
\* value field f of the object has after the loop.
SetAttr(loaded, update, f) == IF update[f] # None THEN update[f][1] ELSE loaded[f]

\* Mutant: the UPDATE writes every column of the loaded object.
UpdatedAlert_WritesAll(row, loaded, update) ==
    [row EXCEPT
        !.ticker = SetAttr(loaded, update, "ticker"),
        !.target_price = SetAttr(loaded, update, "target_price"),
        !.condition = SetAttr(loaded, update, "condition"),
        !.is_active = SetAttr(loaded, update, "is_active")]

\* repository.py 189-196: setattr for the fields that are set, commit; the UPDATE
\* writes the columns whose value changed on the loaded object.
UpdatedAlert(row, loaded, update) ==
    [row EXCEPT
        !.ticker = IF SetAttr(loaded, update, "ticker") # loaded.ticker
                   THEN update.ticker[1] ELSE @,
        !.target_price = IF SetAttr(loaded, update, "target_price") # loaded.target_price
                         THEN update.target_price[1] ELSE @,
        !.condition = IF SetAttr(loaded, update, "condition") # loaded.condition
                      THEN update.condition[1] ELSE @,
        !.is_active = IF SetAttr(loaded, update, "is_active") # loaded.is_active
                      THEN update.is_active[1] ELSE @]

\* The UPDATE has a column to write: a field set to another value, or to null.
AlertChanged(loaded, update) ==
    \/ update.nulls # {}
    \/ \E f \in AlertFields : SetAttr(loaded, update, f) # loaded[f]

\* repository.py 189-194: setattr, await commit.  An UPDATE that finds no row raises
\* StaleDataError; when no column changed there is no UPDATE and nothing is raised.
\* The columns of an alert are NOT NULL: an UPDATE that sets one to null raises
\* IntegrityError and writes nothing.
WriteAlert(r) ==
    /\ req[r].kind = "update_alert"
    /\ req[r].pc = "write"
    /\ LET loaded == req[r].alert[1]
           row == GetAlertById(alerts, loaded.id)
       IN  IF ~AlertChanged(loaded, req[r].update)
           THEN /\ alerts' = alerts
                /\ req' = [req EXCEPT ![r].pc = "refresh"]
           ELSE IF row = None \/ req[r].update.nulls # {}
           THEN /\ alerts' = alerts
                /\ req' = [req EXCEPT ![r].pc = "done", ![r].out = [status |-> 500]]
           ELSE /\ alerts' = (alerts \ {row[1]}) \cup {UpdatedAlert(row[1], loaded, req[r].update)}
                /\ req' = [req EXCEPT ![r].pc = "refresh"]
    /\ UNCHANGED <<cache, source, portfolios, nextPortfolioId, assets, nextAssetId, sess, contrib,
                   lastVal, win, nextAlertId, history>>
    /\ lastPass' = IF \E a \in alerts' : a.is_active /\ a \notin alerts THEN NoPass ELSE lastPass

\* repository.py 157, 195-196: await session.refresh(alert) reads the row again; the
\* alert returned has the row's values of that moment (201 for a create, 200 for an
\* update).  When the row is gone the refresh raises InvalidRequestError.
RefreshAlert(r) ==
    /\ req[r].kind \in {"create_alert", "update_alert"}
    /\ req[r].pc = "refresh"
    /\ LET row == GetAlertById(alerts, req[r].alert_id)
       IN  req' = [req EXCEPT ![r].pc = "done",
                              ![r].out = IF row = None THEN [status |-> 500]
                                         ELSE [status |-> IF req[r].kind = "create_alert"
                                                          THEN 201 ELSE 200,
                                               alert |-> row[1]]]
    /\ UNCHANGED <<cache, source, portfolios, nextPortfolioId, assets, nextAssetId, sess, contrib,
                   lastVal, win, alerts, nextAlertId, history, lastPass>>

\* repository.py 198-203: session.delete(alert), commit.
RemoveAlert(r) ==
    /\ req[r].kind = "delete_alert"
    /\ req[r].pc = "write"
    /\ LET row == GetAlertById(alerts, req[r].alert[1].id)
       IN  IF row = None
           THEN \* the DELETE matches no row, which the mapper only warns about
                /\ alerts' = alerts
                /\ req' = [req EXCEPT ![r].pc = "done", ![r].out = [status |-> 204]]
           ELSE /\ alerts' = alerts \ {row[1]}
                /\ req' = [req EXCEPT ![r].pc = "done", ![r].out = [status |-> 204]]
    /\ UNCHANGED <<cache, source, portfolios, nextPortfolioId, assets, nextAssetId, sess, contrib,
                   lastVal, win, nextAlertId, history, lastPass>>

(***************************************************************************)
(* Environment: the provider's prices change, time passes                  *)
(***************************************************************************)
ProviderChange(ticker, answer) ==
    /\ source[ticker] # answer
    /\ source' = [source EXCEPT ![ticker] = answer]
    /\ LET changed == PriceChanged(cache, source, cache, source')
       IN  /\ req' = Taint(req, changed)
           /\ lastVal' = Forget(lastVal, changed)
    /\ UNCHANGED <<cache, portfolios, nextPortfolioId, assets, nextAssetId, sess, contrib, win, alerts,
                   nextAlertId, history, lastPass>>

Expire(c) ==
    [k \in DOMAIN c |->
        IF c[k] = None THEN None
        ELSE IF c[k][1].ttl <= TickSeconds THEN None
        ELSE Some([c[k][1] EXCEPT !.ttl = @ - TickSeconds])]

\* TickSeconds pass: Redis drops the keys whose time to live has run out.
Tick ==
    /\ \E k \in DOMAIN cache : cache[k] # None
    /\ cache' = Expire(cache)
    /\ LET changed == PriceChanged(cache, source, cache', source)
       IN  /\ req' = Taint(req, changed)
           /\ lastVal' = Forget(lastVal, changed)
    /\ win' = Expired(win, cache, cache', req)
    /\ UNCHANGED <<source, portfolios, nextPortfolioId, assets, nextAssetId, sess, contrib, alerts,
                   nextAlertId, history>>
    /\ lastPass' = CacheMoved(lastPass, alerts, cache, cache')

Answers == {None} \cup {Some(p) : p \in Prices}

(***************************************************************************)
(* SpecPrice: concurrent callers of get_price                              *)
(***************************************************************************)
InitPrice ==
    /\ cache = [k \in CacheKeys |-> None]
    /\ source = [t \in Mapped |-> None]
    /\ portfolios = {}
    /\ nextPortfolioId = 1
    /\ assets = {}
    /\ nextAssetId = 1
    /\ req = [r \in Slots |-> Idle]
    /\ sess = [r \in Slots |-> NoSession]
    /\ contrib = [k \in PortfolioIds \X Tickers |-> NoContrib]
    /\ lastVal = [p \in PortfolioIds |-> NoValuation]
    /\ win = [k \in CacheKeys |-> NoWindow]
    /\ alerts = {}
    /\ nextAlertId = 1
    /\ history = NoHistory
    /\ lastPass = NoPass

NextPrice ==
    \/ \E r \in Slots, t \in {"BTC", "btc"}, f \in BOOLEAN : StartGetPrice(r, t, f)
    \/ \E r \in Slots : \E i \in TaskIdx(r) : TaskGet(r, i)
    \/ \E r \in Slots : \E i \in TaskIdx(r) : TaskFetch(r, i)
    \/ \E r \in Slots : \E i \in TaskIdx(r) : TaskSet(r, i)
    \/ \E r \in Slots : ReturnPrice(r)
    \/ \E a \in Answers : ProviderChange("BTC", a)
    \/ Tick

SpecPrice == InitPrice /\ [][NextPrice]_vars

(***************************************************************************)
(* Calls of the client for every ticker and every answer of the provider   *)
(***************************************************************************)
NextClient ==
    \/ \E t \in ArgTickers, response \in Responses : StartClientCall(1, t, response)
    \/ ClientReturn(1)
    \/ Finish(1, FALSE)

SpecClient == InitPrice /\ [][NextClient]_vars

(***************************************************************************)
(* SpecLedger: concurrent add_asset_to_portfolio and remove_asset calls on *)
(* the portfolio of user 1, while the provider is unreachable              *)
(***************************************************************************)
\* (quantity, avg_buy_price, asset_type) of the AssetCreate payloads.
Contributions == {<<10, 1, "CRYPTO">>, <<10, 2, "STOCK">>, <<20, 1, "CRYPTO">>, <<4, 4, "STOCK">>}

InitLedger ==
    /\ cache = [k \in CacheKeys |-> None]
    /\ source = [t \in Mapped |-> None]
    /\ portfolios = {[id |-> 1, user_id |-> 1, name |-> "Crypto", description |-> None]}
    /\ nextPortfolioId = 2
    /\ assets = {}
    /\ nextAssetId = 1
    /\ req = [r \in Slots |-> Idle]
    /\ sess = [r \in Slots |-> NoSession]
    /\ contrib = [k \in PortfolioIds \X Tickers |-> NoContrib]
    /\ lastVal = [p \in PortfolioIds |-> NoValuation]
    /\ win = [k \in CacheKeys |-> NoWindow]
    /\ alerts = {}
    /\ nextAlertId = 1
    /\ history = NoHistory
    /\ lastPass = NoPass

\* The steps of the handlers running in the slots rs.
Steps(rs) ==
    \/ \E r \in rs : Load(r)
    \/ \E r \in rs : LoadAssets(r)
    \/ \E r \in rs : \E i \in TaskIdx(r) : TaskGet(r, i)
    \/ \E r \in rs : \E i \in TaskIdx(r) : TaskFetch(r, i)
    \/ \E r \in rs : Aggregate(r)
    \/ \E r \in rs : Lookup(r)
    \/ \E r \in rs : CommitMerge(r)
    \/ \E r \in rs : CommitCreate(r)
    \/ \E r \in rs : RefreshCreate(r)
    \/ \E r \in rs : CommitDelete(r)
    \/ \E r \in rs : Finish(r, FALSE)

NextLedger ==
    \/ \E r \in Slots, qc \in {<<10, 1, "CRYPTO">>, <<10, 2, "STOCK">>} :
            StartAdd(r, 1, 1, "BTC", qc[1], qc[2], qc[3])
    \/ \E r \in Slots : StartRemove(r, 1, 1, "BTC")
    \/ Steps(Slots)

SpecLedger == InitLedger /\ [][NextLedger]_vars

(***************************************************************************)
(* SpecLedgerSeq: the same handlers called one after another               *)
(***************************************************************************)
NextLedgerSeq ==
    \/ \E qc \in Contributions : StartAdd(1, 1, 1, "BTC", qc[1], qc[2], qc[3])
    \/ StartAdd(1, 1, 1, "ETH", 10, 2, "STOCK")
    \/ \E t \in {"BTC", "ETH"} : StartRemove(1, 1, 1, t)
    \/ Steps({1})

SpecLedgerSeq == InitLedger /\ [][NextLedgerSeq]_vars

(***************************************************************************)
(* Contributions by the owner, by another user and to a portfolio that     *)
(* does not exist                                                          *)
(***************************************************************************)
NextLedgerAccess ==
    \/ \E r \in Slots, u \in Users, pid \in PortfolioIds, c \in {1, 2} :
          StartAdd(r, u, pid, "BTC", 10, c, "CRYPTO")
    \/ \E r \in Slots : Load(r)
    \/ \E r \in Slots : LoadAssets(r)
    \/ \E r \in Slots : \E i \in TaskIdx(r) : TaskGet(r, i)
    \/ \E r \in Slots : \E i \in TaskIdx(r) : TaskFetch(r, i)
    \/ \E r \in Slots : Aggregate(r)
    \/ \E r \in Slots : Lookup(r)
    \/ \E r \in Slots : CommitMerge(r)
    \/ \E r \in Slots : CommitCreate(r)
    \/ \E r \in Slots : RefreshCreate(r)
    \/ \E r \in Slots : Finish(r, FALSE)

SpecLedgerAccess == InitLedger /\ [][NextLedgerAccess]_vars

(***************************************************************************)
(* Two users create portfolios and user 1 changes them, two at a time       *)
(***************************************************************************)
InitPortfolios ==
    /\ cache = [k \in CacheKeys |-> None]
    /\ source = [t \in Mapped |-> None]
    /\ portfolios = {}
    /\ nextPortfolioId = 1
    /\ assets = {}
    /\ nextAssetId = 1
    /\ req = [r \in Slots |-> Idle]
    /\ sess = [r \in Slots |-> NoSession]
    /\ contrib = [k \in PortfolioIds \X Tickers |-> NoContrib]
    /\ lastVal = [p \in PortfolioIds |-> NoValuation]
    /\ win = [k \in CacheKeys |-> NoWindow]
    /\ alerts = {}
    /\ nextAlertId = 1
    /\ history = NoHistory
    /\ lastPass = NoPass

\* The payloads of update_portfolio: a name, nothing, or a description.
PortfolioUpdates ==
    {<<n, None>> : n \in Names \cup {NoName}} \cup {<<NoName, Some("hodl")>>}

NextPortfolios ==
    \/ \E r \in Slots, u \in Users, n \in Names : StartCreatePortfolio(r, u, n, None)
    \/ \E r \in Slots : CheckName(r)
    \/ \E r \in Slots : InsertPortfolio(r)
    \/ \E r \in Slots : RefreshInserted(r)
    \/ \E r \in Slots, pid \in PortfolioIds, up \in PortfolioUpdates :
          StartUpdatePortfolio(r, 1, pid, up[1], up[2])
    \/ \E r \in Slots : Load(r)
    \/ \E r \in Slots : LoadAssets(r)
    \/ \E r \in Slots : WritePortfolio(r)
    \/ \E r \in Slots : RefreshPortfolio(r)
    \/ \E r \in Slots : Finish(r, FALSE)

SpecPortfolios == InitPortfolios /\ [][NextPortfolios]_vars

(***************************************************************************)
(* SpecValuation: get_portfolio called again and again on holdings that    *)
(* add_asset_to_portfolio has filled, in a session that is kept or renewed, *)
(* while the provider's answers change and cache entries expire            *)
(***************************************************************************)
\* BTC 0.00000010 at 0.01 and ETH 0.00000020 at 0.02.
HoldingA ==
    {[id |-> 1, portfolio_id |-> 1, ticker |-> "BTC", quantity |-> 10, avg_buy_price |-> 1,
      asset_type |-> "CRYPTO"],
     [id |-> 2, portfolio_id |-> 1, ticker |-> "ETH", quantity |-> 20, avg_buy_price |-> 2,
      asset_type |-> "CRYPTO"]}

\* BTC contributed as 0.000000004 at 0.04 (stored as 0E-8) and AAPL 0.00000010 at 0.02.
HoldingB ==
    {[id |-> 1, portfolio_id |-> 1, ticker |-> "BTC", quantity |-> RoundQty(4), avg_buy_price |-> 4,
      asset_type |-> "CRYPTO"],
     [id |-> 2, portfolio_id |-> 1, ticker |-> "AAPL", quantity |-> 10, avg_buy_price |-> 2,
      asset_type |-> "STOCK"]}

InitValuation ==
    /\ cache = [k \in CacheKeys |-> None]
    /\ source = [t \in Mapped |-> None]
    /\ portfolios = {[id |-> 1, user_id |-> 1, name |-> "Crypto", description |-> None]}
    /\ nextPortfolioId = 2
    /\ assets \in {HoldingA, HoldingB}
    /\ nextAssetId = 3
    /\ req = [r \in Slots |-> Idle]
    /\ sess = [r \in Slots |-> NoSession]
    /\ contrib = [k \in PortfolioIds \X Tickers |-> NoContrib]
    /\ lastVal = [p \in PortfolioIds |-> NoValuation]
    /\ win = [k \in CacheKeys |-> NoWindow]
    /\ alerts = {}
    /\ nextAlertId = 1
    /\ history = NoHistory
    /\ lastPass = NoPass

NextValuation ==
    \/ StartValuate(1, 1, 1)
    \/ Load(1)
    \/ LoadAssets(1)
    \/ \E i \in TaskIdx(1) : TaskGet(1, i)
    \/ \E i \in TaskIdx(1) : TaskFetch(1, i)
    \/ \E i \in TaskIdx(1) : TaskSet(1, i)
    \/ Aggregate(1)
    \/ \E keep_session \in BOOLEAN : Finish(1, keep_session)
    \/ \E a \in Answers : ProviderChange("BTC", a)
    \/ \E a \in {None, Some(150)} : ProviderChange("ETH", a)
    \/ Tick

SpecValuation == InitValuation /\ [][NextValuation]_vars

(***************************************************************************)
(* SpecAlerts: the refresh job with its alert evaluation, run again and    *)
(* again while alerts are created and the provider's answer changes        *)
(***************************************************************************)
AlertsIn == {<<100, "ABOVE">>, <<150, "ABOVE">>, <<150, "BELOW">>}

InitAlerts ==
    /\ cache = [k \in CacheKeys |-> None]
    /\ source = [t \in Mapped |-> None]
    /\ portfolios = {[id |-> 1, user_id |-> 1, name |-> "Crypto", description |-> None]}
    /\ nextPortfolioId = 2
    /\ assets = {[id |-> 1, portfolio_id |-> 1, ticker |-> "ETH", quantity |-> 10,
                  avg_buy_price |-> 2, asset_type |-> "CRYPTO"]}
    /\ nextAssetId = 2
    /\ req = [r \in Slots |-> Idle]
    /\ sess = [r \in Slots |-> NoSession]
    /\ contrib = [k \in PortfolioIds \X Tickers |-> NoContrib]
    /\ lastVal = [p \in PortfolioIds |-> NoValuation]
    /\ win = [k \in CacheKeys |-> NoWindow]
    /\ alerts = {}
    /\ nextAlertId = 1
    /\ history = NoHistory
    /\ lastPass = NoPass

NextAlerts ==
    \/ StartRefresh(1)
    \/ SelectAssetTickers(1)
    \/ SelectAlertTickers(1)
    \/ \E i \in TaskIdx(1) : TaskFetch(1, i)
    \/ \E i \in TaskIdx(1) : TaskSet(1, i)
    \/ GatherDone(1)
    \/ LoadActive(1)
    \/ \E raised \in BOOLEAN : EvalCheck(1, raised)
    \/ \E delivered \in BOOLEAN : Notify(1, delivered)
    \/ CommitAlerts(1)
    \/ \E closed \in BOOLEAN : ReleaseRedis(1, closed)
    \/ \E disposed \in BOOLEAN : DisposeEngine(1, disposed)
    \/ Finish(1, FALSE)
    \/ \E tc \in AlertsIn : CreateAlert(1, "BTC", tc[1], tc[2])
    \/ \E a \in Answers : ProviderChange("BTC", a)

SpecAlerts == InitAlerts /\ [][NextAlerts]_vars

(***************************************************************************)
(* The refresh job runs while the owner and another user update and delete *)
(* alerts                                                                  *)
(***************************************************************************)
UpdatesIn ==
    {[NoUpdate EXCEPT !.target_price = Some(50)], [NoUpdate EXCEPT !.is_active = Some(TRUE)],
     [NoUpdate EXCEPT !.is_active = Some(FALSE)], [NoUpdate EXCEPT !.nulls = {"is_active"}]}

InitAlertLife ==
    /\ cache = [k \in CacheKeys |-> None]
    /\ source = [t \in Mapped |-> IF t = "BTC" THEN Some(150) ELSE None]
    /\ portfolios = {[id |-> 1, user_id |-> 1, name |-> "Crypto", description |-> None]}
    /\ nextPortfolioId = 2
    /\ assets = {}
    /\ nextAssetId = 1
    /\ req = [r \in Slots |-> Idle]
    /\ sess = [r \in Slots |-> NoSession]
    /\ contrib = [k \in PortfolioIds \X Tickers |-> NoContrib]
    /\ lastVal = [p \in PortfolioIds |-> NoValuation]
    /\ win = [k \in CacheKeys |-> NoWindow]
    /\ alerts = {}
    /\ nextAlertId = 1
    /\ history = NoHistory
    /\ lastPass = NoPass

NextAlertLife ==
    \/ StartRefresh(1)
    \/ SelectAssetTickers(1)
    \/ SelectAlertTickers(1)
    \/ \E i \in TaskIdx(1) : TaskFetch(1, i)
    \/ \E i \in TaskIdx(1) : TaskSet(1, i)
    \/ GatherDone(1)
    \/ LoadActive(1)
    \/ EvalCheck(1, FALSE)
    \/ Notify(1, TRUE)
    \/ CommitAlerts(1)
    \/ ReleaseRedis(1, TRUE)
    \/ DisposeEngine(1, TRUE)
    \/ Finish(1, FALSE)
    \/ CreateAlert(1, "BTC", 100, "ABOVE")
    \/ \E id \in 1..MaxAlertId, up \in UpdatesIn : StartUpdateAlert(2, 1, id, up)
    \/ StartUpdateAlert(2, 2, 1, [NoUpdate EXCEPT !.is_active = Some(TRUE)])
    \/ StartDeleteAlert(2, 1, 1)
    \/ FindAlert(2)
    \/ WriteAlert(2)
    \/ RefreshAlert(2)
    \/ RemoveAlert(2)
    \/ Finish(2, FALSE)

SpecAlertLife == InitAlertLife /\ [][NextAlertLife]_vars

(***************************************************************************)
(* The snapshot job runs again and again over two portfolios while prices  *)
(* change and cache entries expire                                         *)
(***************************************************************************)
InitSnapshotSeq ==
    /\ cache = [k \in CacheKeys |-> None]
    /\ source = [t \in Mapped |-> IF t = "ETH" THEN Some(150) ELSE None]
    /\ portfolios = {[id |-> 1, user_id |-> 1, name |-> "Crypto", description |-> None],
                     [id |-> 2, user_id |-> 2, name |-> "Crypto", description |-> None]}
    /\ nextPortfolioId = 3
    /\ assets = {[id |-> 1, portfolio_id |-> 1, ticker |-> "BTC", quantity |-> 10,
                  avg_buy_price |-> 100, asset_type |-> "CRYPTO"],
                 [id |-> 2, portfolio_id |-> 2, ticker |-> "ETH", quantity |-> 20,
                  avg_buy_price |-> 100, asset_type |-> "CRYPTO"]}
    /\ nextAssetId = 3
    /\ req = [r \in Slots |-> Idle]
    /\ sess = [r \in Slots |-> NoSession]
    /\ contrib = [k \in PortfolioIds \X Tickers |-> NoContrib]
    /\ lastVal = [p \in PortfolioIds |-> NoValuation]
    /\ win = [k \in CacheKeys |-> NoWindow]
    /\ alerts = {}
    /\ nextAlertId = 1
    /\ history \in {[uq |-> u, rows |-> {}] : u \in BOOLEAN}
    /\ lastPass = NoPass

SnapshotSteps(r) ==
    \/ \E today \in Dates : StartSnapshot(r, today)
    \/ LoadAll(r)
    \/ LoadAllAssets(r)
    \/ \E i \in TaskIdx(r) : TaskGet(r, i)
    \/ \E i \in TaskIdx(r) : TaskFetch(r, i)
    \/ \E i \in TaskIdx(r) : TaskSet(r, i)
    \/ UpsertHistory(r)
    \/ CommitSnapshots(r)
    \/ \E closed \in BOOLEAN : ReleaseRedis(r, closed)
    \/ \E disposed \in BOOLEAN : DisposeEngine(r, disposed)
    \/ Finish(r, FALSE)

NextSnapshotSeq ==
    \/ SnapshotSteps(1)
    \/ \E a \in Answers : ProviderChange("BTC", a)
    \/ Tick

SpecSnapshotSeq == InitSnapshotSeq /\ [][NextSnapshotSeq]_vars

(***************************************************************************)
(* Two snapshot jobs run at the same time over one portfolio               *)
(***************************************************************************)
InitSnapshots ==
    /\ cache = [k \in CacheKeys |-> None]
    /\ source = [t \in Mapped |-> IF t = "BTC" THEN Some(150) ELSE None]
    /\ portfolios = {[id |-> 1, user_id |-> 1, name |-> "Crypto", description |-> None]}
    /\ nextPortfolioId = 2
    /\ assets = {[id |-> 1, portfolio_id |-> 1, ticker |-> "BTC", quantity |-> 10,
                  avg_buy_price |-> 100, asset_type |-> "CRYPTO"]}
    /\ nextAssetId = 2
    /\ req = [r \in Slots |-> Idle]
    /\ sess = [r \in Slots |-> NoSession]
    /\ contrib = [k \in PortfolioIds \X Tickers |-> NoContrib]
    /\ lastVal = [p \in PortfolioIds |-> NoValuation]
    /\ win = [k \in CacheKeys |-> NoWindow]
    /\ alerts = {}
    /\ nextAlertId = 1
    /\ history \in {[uq |-> u, rows |-> {}] : u \in BOOLEAN}
    /\ lastPass = NoPass

WriterSteps(r) ==
    \/ \E today \in Dates : StartSnapshot(r, today)
    \/ LoadAll(r)
    \/ LoadAllAssets(r)
    \/ \E i \in TaskIdx(r) : TaskGet(r, i)
    \/ \E i \in TaskIdx(r) : TaskFetch(r, i)
    \/ \E i \in TaskIdx(r) : TaskSet(r, i)
    \/ UpsertHistory(r)
    \/ CommitSnapshots(r)
    \/ ReleaseRedis(r, TRUE)
    \/ DisposeEngine(r, TRUE)
    \/ Finish(r, FALSE)

NextSnapshots ==
    \/ \E r \in Slots : WriterSteps(r)
    \/ ProviderChange("BTC", Some(0))

SpecSnapshots == InitSnapshots /\ [][NextSnapshots]_vars

(***************************************************************************)
(* The snapshot job over two portfolios, with faults of the valuation and  *)
(* of the upsert                                                           *)
(***************************************************************************)
SnapshotFaults == {"valuate", "upsert"}

NextSnapshotFaults ==
    \/ SnapshotSteps(1)
    \/ \E stage \in SnapshotFaults : SnapshotFault(1, stage)
    \/ ProviderChange("BTC", Some(0))

SpecSnapshotFaults == InitSnapshotSeq /\ [][NextSnapshotFaults]_vars

(***************************************************************************)
(* The refresh job and the valuation of a holding, one after another, with *)
(* faults of the cache backend                                             *)
(***************************************************************************)
NextCacheFaults ==
    \/ StartRefresh(1)
    \/ SelectAssetTickers(1)
    \/ SelectAlertTickers(1)
    \/ StartValuate(1, 1, 1)
    \/ Load(1)
    \/ LoadAssets(1)
    \/ \E i \in TaskIdx(1) : TaskGet(1, i)
    \/ \E i \in TaskIdx(1) : TaskFetch(1, i)
    \/ \E i \in TaskIdx(1) : TaskSet(1, i)
    \/ \E i \in TaskIdx(1) : TaskCacheFault(1, i)
    \/ GatherFault(1)
    \/ Aggregate(1)
    \/ GatherDone(1)
    \/ LoadActive(1)
    \/ \E raised \in BOOLEAN : EvalCheck(1, raised)
    \/ \E delivered \in BOOLEAN : Notify(1, delivered)
    \/ CommitAlerts(1)
    \/ ReleaseRedis(1, TRUE)
    \/ DisposeEngine(1, TRUE)
    \/ Finish(1, FALSE)
    \/ CreateAlert(1, "BTC", 100, "ABOVE")
    \/ ProviderChange("BTC", Some(150))

SpecCacheFaults == InitAlerts /\ [][NextCacheFaults]_vars

(***************************************************************************)
(* The refresh job runs while alerts are posted with any spelling of the   *)
(* ticker                                                                  *)
(***************************************************************************)
NextAlertKeys ==
    \/ StartRefresh(1)
    \/ SelectAssetTickers(1)
    \/ SelectAlertTickers(1)
    \/ \E i \in TaskIdx(1) : TaskFetch(1, i)
    \/ \E i \in TaskIdx(1) : TaskSet(1, i)
    \/ GatherDone(1)
    \/ LoadActive(1)
    \/ EvalCheck(1, FALSE)
    \/ Notify(1, TRUE)
    \/ CommitAlerts(1)
    \/ ReleaseRedis(1, TRUE)
    \/ DisposeEngine(1, TRUE)
    \/ \E r \in Slots : Finish(r, FALSE)
    \/ \E t \in TickerStrings : PostAlert(2, 1, t, 100, "ABOVE")
    \/ ValidateAlert(2)
    \/ RefreshAlert(2)
    \/ ProviderChange("BTC", Some(150))

SpecAlertKeys == InitAlerts /\ [][NextAlertKeys]_vars

(***************************************************************************)
(* remove_asset, delete_portfolio and add_asset_to_portfolio on the        *)
(* holdings of user 1, two requests at a time                              *)
(***************************************************************************)
InitRemoval ==
    /\ cache = [k \in CacheKeys |-> None]
    /\ source = [t \in Mapped |-> None]
    /\ portfolios = {[id |-> 1, user_id |-> 1, name |-> "Crypto", description |-> None],
                     [id |-> 2, user_id |-> 1, name |-> "Stocks", description |-> None]}
    /\ nextPortfolioId = 3
    /\ assets = HoldingA
    /\ nextAssetId = 3
    /\ req = [r \in Slots |-> Idle]
    /\ sess = [r \in Slots |-> NoSession]
    /\ contrib = [k \in PortfolioIds \X Tickers |-> NoContrib]
    /\ lastVal = [p \in PortfolioIds |-> NoValuation]
    /\ win = [k \in CacheKeys |-> NoWindow]
    /\ alerts = {}
    /\ nextAlertId = 1
    /\ history = NoHistory
    /\ lastPass = NoPass

NextRemoval ==
    \/ \E r \in Slots, t \in {"BTC", "AAPL"} : StartRemove(r, 1, 1, t)
    \/ \E u \in Users : StartDeletePortfolio(1, u, 1)
    \/ \E pid \in PortfolioIds : StartAdd(2, 1, pid, "BTC", 10, 1, "STOCK")
    \/ \E r \in Slots : RemovePortfolio(r)
    \/ Steps(Slots)

SpecRemoval == InitRemoval /\ [][NextRemoval]_vars

(***************************************************************************)
(* The refresh job forces the prices of BTC and ETH in slot 1 while        *)
(* requests call get_price in slot 2, the provider changes its answer for  *)
(* BTC and cache entries expire                                            *)
(***************************************************************************)
\* The prices the provider quotes for ETH, none of which it quotes for BTC.
EthPrices == {300}

InitCacheWriters ==
    /\ cache = [k \in CacheKeys |-> None]
    /\ source = [t \in Mapped |-> IF t = "ETH" THEN Some(CHOOSE p \in EthPrices : TRUE) ELSE None]
    /\ portfolios = {[id |-> 1, user_id |-> 1, name |-> "Crypto", description |-> None]}
    /\ nextPortfolioId = 2
    /\ assets = HoldingA
    /\ nextAssetId = 3
    /\ req = [r \in Slots |-> Idle]
    /\ sess = [r \in Slots |-> NoSession]
    /\ contrib = [k \in PortfolioIds \X Tickers |-> NoContrib]
    /\ lastVal = [p \in PortfolioIds |-> NoValuation]
    /\ win = [k \in CacheKeys |-> NoWindow]
    /\ alerts = {}
    /\ nextAlertId = 1
    /\ history = NoHistory
    /\ lastPass = NoPass

NextCacheWriters ==
    \/ StartRefresh(1)
    \/ SelectAssetTickers(1)
    \/ SelectAlertTickers(1)
    \/ GatherDone(1)
    \/ LoadActive(1)
    \/ ReleaseRedis(1, TRUE)
    \/ DisposeEngine(1, TRUE)
    \/ Finish(1, FALSE)
    \/ \E t \in {"BTC", "btc"} : StartGetPrice(2, t, FALSE)
    \/ TaskGet(2, 1)
    \/ ReturnPrice(2)
    \/ \E r \in Slots : \E i \in TaskIdx(r) : TaskFetch(r, i)
    \/ \E r \in Slots : \E i \in TaskIdx(r) : TaskSet(r, i)
    \/ \E a \in Answers : ProviderChange("BTC", a)
    \/ Tick

SpecCacheWriters == InitCacheWriters /\ [][NextCacheWriters]_vars

(***************************************************************************)
(* Claims about the price service                                          *)
(***************************************************************************)
AllTasks == {req[r].tasks[i] : <<r, i>> \in {ri \in Slots \X (1..MaxAssetId) : ri[2] \in TaskIdx(ri[1])}}

\* C1: a non-forced get_price whose cache read found a value never calls the
\* source, never writes the cache, and returns the cached value.
C1_HitNeverCallsSource ==
    \A t \in AllTasks :
        (~t.force /\ t.seen # None) =>
            /\ t.pc = "done"
            /\ t.calls = 0
            /\ t.sets = 0
            /\ t.gets = 1
            /\ t.result = Some(StrFloat(t.seen[1]))

C1_Witness ==
    \E t \in AllTasks : ~t.force /\ t.seen = Some("1.5") /\ t.pc = "done" /\ t.result = Some(150)

\* C2: when the source returns absent, get_price returns absent without calling
\* cache.set, the step leaves every cache entry as it was, and a non-forced call
\* that found no cached value always goes to the source.
C2_AbsentIsNeverCached ==
    /\ [](\A t \in AllTasks :
            /\ (t.calls = 1 /\ t.fetched = None) => (t.pc = "done" /\ t.result = None /\ t.sets = 0)
            /\ (~t.force /\ t.gets = 1 /\ t.seen = None /\ t.pc \in {"set", "done"}) => t.calls = 1)
    /\ [][\A r \in Slots : \A i \in TaskIdx(r) :
            (req[r].tasks[i].pc = "fetch" /\ req'[r].tasks[i].pc = "done") => cache' = cache]_vars

C2_Witness ==
    \E t \in AllTasks :
        /\ t.force /\ t.calls = 1 /\ t.fetched = None /\ t.pc = "done"
        /\ cache[CacheKey(t.ticker)] # None

\* C3: on a cache miss where the source returns p, get_price returns p and the
\* one cache.set it makes stores str(p) under price:<TICKER> with a TTL of 600 s.
C3_MissPopulatesCache ==
    /\ [](\A t \in AllTasks :
            (t.pc = "done" /\ t.fetched # None) => (t.result = t.fetched /\ t.sets = 1 /\ t.calls = 1))
    /\ [][\A r \in Slots : \A i \in TaskIdx(r) :
            (req[r].tasks[i].pc = "set" /\ req'[r].tasks[i].pc = "done") =>
                LET t == req[r].tasks[i]
                    key == "price:" \o (IF t.ticker = "btc" THEN "BTC" ELSE t.ticker)
                IN  /\ cache'[key] # None
                    /\ StrFloat(cache'[key][1].val) = t.fetched[1]
                    /\ cache'[key][1].ttl = 600
                    /\ \A k \in CacheKeys \ {key} : cache'[k] = cache[k]]_vars

C3_Witness ==
    \E t \in AllTasks :
        /\ ~t.force /\ t.gets = 1 /\ t.seen = None /\ t.ticker = "btc"
        /\ t.fetched = Some(150) /\ t.pc = "done"
        /\ cache["price:BTC"] = Some([val |-> "1.5", ttl |-> 600])

\* C4 as stated: in one TTL window of a key the source returns a price to at most
\* one non-forced get_price, whatever the interleaving.
C4_AtMostOneCallPerWindow == \A k \in CacheKeys : win[k].calls <= 1

\* C4 amended: the same, for the windows in which no two non-forced get_price
\* calls for the key ran at the same time.
C4_AtMostOneCallWithoutOverlap == \A k \in CacheKeys : ~win[k].overlap => win[k].calls <= 1

\* A window with one source call and a later call answered from the cache.
C4_Witness ==
    /\ win["price:BTC"] = [calls |-> 1, overlap |-> FALSE]
    /\ \E t \in AllTasks : ~t.force /\ t.seen # None /\ t.pc = "done" /\ t.ticker = "BTC"

(***************************************************************************)
(* Claims about the position ledger                                        *)
(***************************************************************************)
Hist(a) == contrib[<<a.portfolio_id, a.ticker>>].hist

RECURSIVE SumQ(_)
SumQ(h) == IF h = << >> THEN 0 ELSE Head(h)[1] + SumQ(Tail(h))

RECURSIVE SumQC(_)
SumQC(h) == IF h = << >> THEN 0 ELSE Head(h)[1] * Head(h)[2] + SumQC(Tail(h))

\* What contributing h one after another leaves in the row: <<quantity, avg_buy_price>>.
RECURSIVE Contributed(_)
Contributed(h) ==
    IF Len(h) = 1 THEN <<RoundQty(h[1][1]), h[1][2]>>
    ELSE LET prev == Contributed(SubSeq(h, 1, Len(h) - 1))
             last == h[Len(h)]
         IN  <<RoundQty(prev[1] + last[1]),
               RoundHalfUp(prev[1] * prev[2] + last[1] * last[2], prev[1] + last[1])>>

Orders(h) ==
    {[i \in DOMAIN h |-> h[p[i]]] :
        p \in {f \in [DOMAIN h -> DOMAIN h] : \A i, j \in DOMAIN h : f[i] = f[j] => i = j}}

\* C5 as stated: the stored quantity is the exact sum of the contributed
\* quantities, the stored unit cost is their quantity-weighted average (to 2
\* decimals), and every order of the same contributions gives the same row.
C5_WeightedAverageAnyOrder ==
    \A a \in assets :
        LET h == Hist(a)
        IN  h # << >> =>
                /\ a.quantity = SumQ(h)
                /\ a.avg_buy_price = RoundHalfUp(SumQC(h), SumQ(h))
                /\ \A o \in Orders(h) : Contributed(o) = <<a.quantity, a.avg_buy_price>>

Position(pid, ticker) == {a \in assets : a.portfolio_id = pid /\ a.ticker = ticker}

\* The commit of the contribution of slot r, and the refresh that follows an INSERT.
Commits(r) == req[r].kind = "add" /\ req[r].pc = "commit" /\ req'[r].pc # "commit"

Refreshes(r) == req[r].kind = "add" /\ req[r].pc = "refresh" /\ req'[r].pc = "done"

\* The row a merge of (q, c) into the position b must leave.
MergeExpected(b, q, c) ==
    [b EXCEPT !.quantity = 10 * ((2 * (b.quantity + q) + 10) \div 20),
              !.avg_buy_price = (2 * (b.quantity * b.avg_buy_price + q * c) + (b.quantity + q))
                                    \div (2 * (b.quantity + q))]

C6_Merges(r) ==
    \A b \in Position(req[r].pid, req[r].ticker) :
        /\ req'[r].out.status = 201
        /\ assets' = (assets \ {b}) \cup {MergeExpected(b, req[r].qty, req[r].cost)}
        /\ nextAssetId' = nextAssetId

C6_Creates(r, quantity) ==
    Position(req[r].pid, req[r].ticker) = {} =>
        /\ req'[r].pc = "refresh"
        /\ \E id \in 1..MaxAssetId :
            /\ \A a \in assets : a.id # id
            /\ assets' = assets \cup {[id |-> id, portfolio_id |-> req[r].pid,
                                      ticker |-> req[r].ticker, quantity |-> quantity,
                                      avg_buy_price |-> req[r].cost, asset_type |-> req[r].atype]}

\* The created position is answered with 201 as the row holds it.
C6_Returns(r) ==
    /\ req'[r].out.status = 201
    /\ assets' = assets
    /\ \E a \in assets : /\ a.id = req'[r].out.id
                          /\ a.quantity = req'[r].out.quantity
                          /\ DecimalOf(a.avg_buy_price) = req'[r].out.avg_buy_price

\* C6 as stated: a contribution to an existing position rewrites that one row to
\* (Q + q, (Q*C + q*c)/(Q + q)) and adds no row; a contribution to a new ticker
\* adds one row with exactly the given quantity, cost and asset class.
C6_MergeOrCreateExactly ==
    [][\A r \in Slots :
          /\ Commits(r) => (C6_Merges(r) /\ C6_Creates(r, req[r].qty))
          /\ Refreshes(r) => C6_Returns(r)]_vars

\* The same with the quantity of the new row as the column stores it: what the
\* handlers do on every contribution.
C6_MergeOrCreateAsStored ==
    [][\A r \in Slots :
          /\ Commits(r) =>
                (C6_Merges(r) /\ C6_Creates(r, 10 * ((2 * req[r].qty + 10) \div 20)))
          /\ Refreshes(r) => C6_Returns(r)]_vars

\* C7: a holding never has two rows for one ticker, and a contribution to a ticker
\* that has a row when it commits is merged into that row, also when it raced
\* with the contribution that created the row.
C7_OneRowAndAlwaysMerged ==
    /\ [](\A a, b \in assets : (a.portfolio_id = b.portfolio_id /\ a.ticker = b.ticker) => a = b)
    /\ [][\A r \in Slots :
            (Commits(r) /\ Position(req[r].pid, req[r].ticker) # {}) =>
                /\ req'[r].out.status = 201
                /\ Len(contrib'[<<req[r].pid, req[r].ticker>>].hist)
                       = Len(contrib[<<req[r].pid, req[r].ticker>>].hist) + 1
                /\ Cardinality(assets') = Cardinality(assets)]_vars

(***************************************************************************)
(* Claims about the valuation                                              *)
(***************************************************************************)
\* A valuation of a holding with positions has returned in slot r.
Valuated(r) ==
    /\ req[r].kind = "valuate" /\ req[r].pc = "done"
    /\ req[r].out.status = 200 /\ req[r].tasks # << >>

GatheredPrice(r, i) == req[r].tasks[i].result

ResolvedIdx(r) == {i \in TaskIdx(r) : GatheredPrice(r, i) # None}

\* Sums over the positions of the returned holding whose price was resolved.
ExpectedValue(r) ==
    SumOf([i \in TaskIdx(r) |->
             IF i \in ResolvedIdx(r)
             THEN req[r].out.portfolio.assets[i].quantity * GatheredPrice(r, i)[1] ELSE 0])

ExpectedCost(r) ==
    SumOf([i \in TaskIdx(r) |->
             IF i \in ResolvedIdx(r)
             THEN req[r].out.portfolio.assets[i].quantity
                      * req[r].out.portfolio.assets[i].avg_buy_price ELSE 0])

\* C8: a returned valuation carries, for each position with a resolved price,
\* current_value = quantity * price and pnl_percentage = (value - cost) / cost * 100,
\* unset when the cost is 0; total_value is the sum of the values and
\* total_pnl_percentage = (total_value - total_cost) / total_cost * 100 over exactly
\* the resolved positions, unset when total_cost is 0.
C8_ValuationFormulas ==
    \A r \in Slots : Valuated(r) =>
        LET p == req[r].out.portfolio
            tv == ExpectedValue(r)
            tc == ExpectedCost(r)
        IN  /\ \A i \in ResolvedIdx(r) :
                 LET a == p.assets[i]
                     value == a.quantity * GatheredPrice(r, i)[1]
                     cost == a.quantity * a.avg_buy_price
                 IN  /\ a.current_value = Some(value)
                     /\ a.pnl_percentage = IF cost > 0 THEN Some(Frac((value - cost) * 100, cost))
                                           ELSE None
            /\ p.total_value = Some(tv)
            /\ p.total_pnl_percentage = IF tc > 0 THEN Some(Frac((tv - tc) * 100, tc)) ELSE None

\* C9: in a returned valuation a position whose price is absent has current_value
\* and pnl_percentage unset and adds nothing to the totals; when every price is
\* absent total_value is 0 and total_pnl_percentage is unset.
C9_AbsentLeavesUnset ==
    \A r \in Slots : Valuated(r) =>
        LET p == req[r].out.portfolio
        IN  /\ \A i \in TaskIdx(r) \ ResolvedIdx(r) :
                 /\ p.assets[i].current_value = None
                 /\ p.assets[i].pnl_percentage = None
            /\ p.total_value = Some(ExpectedValue(r))
            /\ ResolvedIdx(r) = {} =>
                 (p.total_value = Some(0) /\ p.total_pnl_percentage = None)

SameValuation(p, q) ==
    /\ p.total_value = q.total_value
    /\ p.total_pnl_percentage = q.total_pnl_percentage
    /\ DOMAIN p.assets = DOMAIN q.assets
    /\ \A i \in DOMAIN p.assets :
         /\ p.assets[i].id = q.assets[i].id
         /\ p.assets[i].current_value = q.assets[i].current_value
         /\ p.assets[i].pnl_percentage = q.assets[i].pnl_percentage

\* C10: two valuations of one holding with no change of a price and no contribution
\* since the first began return the same totals and the same per-position values.
C10_RepeatedValuationIsIdentical ==
    \A pid \in PortfolioIds :
        (lastVal[pid].prev # None /\ lastVal[pid].cur # None) =>
            SameValuation(lastVal[pid].prev[1], lastVal[pid].cur[1])

(***************************************************************************)
(* Claims about the alert evaluator and the refresh job                    *)
(***************************************************************************)
\* The step in which _process_alerts reads the cache for the alert at job.idx.
Evaluates(r) ==
    /\ req[r].kind = "refresh" /\ req[r].pc = "check"
    /\ req'[r].job.checked # req[r].job.checked

EvaluatedAlert(r) == req[r].job.active[req[r].job.idx]

\* The price the cache holds for an alert's ticker, in cents.
CachedFor(a) ==
    IF cache["price:" \o a.ticker] = None THEN None
    ELSE Some(StrFloat(cache["price:" \o a.ticker][1].val))

\* C11: an alert is triggered by an evaluation pass if and only if a price is cached
\* for its ticker and (ABOVE and cached > target) or (BELOW and cached < target);
\* a cached price equal to the target triggers neither direction.
C11_TriggeredIffStrictlyPast ==
    [][\A r \in Slots : Evaluates(r) =>
          LET a == EvaluatedAlert(r)
              p == CachedFor(a)
          IN  /\ (req'[r].pc = "notify") <=>
                     /\ p # None
                     /\ \/ a.condition = "ABOVE" /\ p[1] > a.target_price
                        \/ a.condition = "BELOW" /\ p[1] < a.target_price
              /\ (p # None /\ p[1] = a.target_price) => req'[r].pc # "notify"]_vars

\* One pass has evaluated an alert whose cached price equals its target and has
\* not triggered it, and has triggered another alert.
C11_Witness ==
    \E r \in Slots :
        /\ req[r].kind = "refresh"
        /\ \E i, j \in DOMAIN req[r].job.checked :
             /\ req[r].job.checked[i].is_triggered
             /\ ~req[r].job.checked[j].is_triggered
             /\ req[r].job.checked[j].seen # None
             /\ StrFloat(req[r].job.checked[j].seen[1]) = req[r].job.active[j].target_price

\* Slot r is inside _process_alerts.
InPass(r) == req[r].kind = "refresh" /\ req[r].pc \in {"active", "check", "notify", "commit"}

\* A step of _process_alerts in slot r.
PassStep(r) == InPass(r) /\ (req'[r].pc # req[r].pc \/ req'[r].job # req[r].job)

\* _process_alerts returns or raises in this step.
PassEnds(r) == InPass(r) /\ req'[r].pc = "finally"

TriggeredIn(job) == {job.checked[i].id : i \in {k \in DOMAIN job.checked : job.checked[k].is_triggered}}

\* The alerts whose row goes from active to inactive in this step.
Deactivated == {a.id : a \in {x \in alerts : x.is_active /\ \E b \in alerts' : b.id = x.id /\ ~b.is_active}}

\* C12: the evaluator never triggers or deactivates an alert whose ticker has no
\* cached price (it is skipped and stays active), reads prices from the cache only
\* (no source call, no cache write), and the alerts a pass deactivates are exactly
\* the alerts it triggered.
C12_SkipsUncachedAndDeactivatesTriggered ==
    [][\A r \in Slots :
          /\ (Evaluates(r) /\ CachedFor(EvaluatedAlert(r)) = None) =>
                 /\ req'[r].pc # "notify" /\ req'[r].job.error = ""
                 /\ alerts' = alerts
          /\ PassStep(r) =>
                 /\ cache' = cache /\ source' = source
                 /\ req'[r].tasks = req[r].tasks
          /\ (PassStep(r) /\ ~PassEnds(r)) => alerts' = alerts
          /\ PassEnds(r) => Deactivated = TriggeredIn(req'[r].job)]_vars

\* C15: when the notification sink has failed for a triggered alert, that alert and
\* the other alerts triggered in the pass are inactive in the table once the pass
\* has ended.
C15_SinkFailureStillDeactivates ==
    \A r \in Slots :
        (req[r].kind = "refresh" /\ req[r].job.error = "notify") =>
            \A id \in TriggeredIn(req[r].job) : \E a \in alerts : a.id = id /\ ~a.is_active

\* _process_alerts returns its count in this step.
Returns(r) == InPass(r) /\ req[r].job.returned = None /\ req'[r].job.returned # None

\* C13: a pass returns the number of alerts it fired, and a pass that follows a
\* returned pass with no re-arm and no new alert in between, whatever the cached
\* prices of the already fired alerts are, fires nothing and returns 0.
C13_SecondPassFiresNothing ==
    [][\A r \in Slots : Returns(r) =>
          /\ req'[r].job.returned[1] = Cardinality(TriggeredIn(req'[r].job))
          /\ (lastPass.valid /\ lastPass.steady) =>
                 (TriggeredIn(req'[r].job) = {} /\ req'[r].job.returned[1] = 0)]_vars

\* C13 amended: the following pass fires none of the alerts the returned pass fired,
\* and returns the number of the other alerts it fires.
C13_SecondPassSkipsFired ==
    [][\A r \in Slots : Returns(r) =>
          /\ req'[r].job.returned[1] = Cardinality(TriggeredIn(req'[r].job))
          /\ Len(req'[r].job.sent) = req'[r].job.returned[1]
          /\ lastPass.valid => TriggeredIn(req'[r].job) \cap lastPass.fired = {}]_vars

\* A pass that follows a pass that fired is evaluating alerts while the cached price
\* of a fired alert is still past its target.
C13_Witness ==
    \E r \in Slots :
        /\ req[r].kind = "refresh" /\ req[r].pc \in {"check", "notify", "commit"}
        /\ req[r].job.checked # << >>
        /\ lastPass.valid
        /\ \E a \in alerts :
             /\ a.id \in lastPass.fired /\ ~a.is_active
             /\ CachedFor(a) # None /\ IsTriggered(a, CachedFor(a)[1])

\* The row of the alert before the step.
Before(a) == CHOOSE b \in alerts : b.id = a.id

\* The owner's update_alert with is_active = true is written in this step.
Rearms(r, a) ==
    /\ req[r].kind = "update_alert" /\ req[r].pc = "write" /\ req'[r].pc = "refresh"
    /\ req[r].alert[1].id = a.id
    /\ req[r].user = a.user_id
    /\ req[r].update.is_active = Some(TRUE)

\* C14: an alert is created active; a step of the refresh job or of the evaluator
\* changes is_active only from true to false; is_active goes from false to true only
\* in the write of an update_alert of the alert's owner that sets is_active = true.
C14_RearmOnlyByOwnerUpdate ==
    [][\A a \in alerts' :
          IF \A b \in alerts : b.id # a.id THEN a.is_active
          ELSE /\ (~Before(a).is_active /\ a.is_active) => \E r \in Slots : Rearms(r, a)
               /\ (\E r \in Slots : req[r].kind = "refresh" /\ req'[r] # req[r]) =>
                      (a.is_active => Before(a).is_active)]_vars

\* The evaluator has deactivated an alert and the owner's update has re-armed it.
C14_Witness ==
    \E r \in Slots, a \in alerts :
        /\ req[r].kind = "update_alert" /\ req[r].pc = "done" /\ req[r].out.status = 200
        /\ req[r].update.is_active = Some(TRUE)
        /\ req[r].alert[1].id = a.id /\ ~req[r].alert[1].is_active
        /\ a.is_active
        /\ \E j \in Slots : /\ req[j].kind = "refresh" /\ req[j].job.returned # None
                            /\ a.id \in req[j].job.fired

\* The refresh job builds its get_price calls in this step.
BuildsTasks(r) ==
    req[r].kind = "refresh" /\ req[r].pc = "select_alerts" /\ req'[r].pc # "select_alerts"

\* The get_price(ticker, force_refresh=True) calls of the job for one ticker.
ForcedCalls(tasks, t) == {i \in DOMAIN tasks : tasks[i].ticker = t /\ tasks[i].force}

\* C16: the refresh job calls get_price(ticker, force_refresh=True) exactly once for
\* every ticker that a position or an active alert has, and calls get_price for no
\* other ticker; the ticker of an alert that is inactive is not refreshed for it.
C16_RefreshesUnionOnce ==
    [][\A r \in Slots : BuildsTasks(r) =>
          LET union == {a.ticker : a \in assets} \cup {a.ticker : a \in {x \in alerts : x.is_active}}
          IN  /\ \A t \in Tickers :
                    Cardinality(ForcedCalls(req'[r].tasks, t)) = IF t \in union THEN 1 ELSE 0
              /\ \A i \in DOMAIN req'[r].tasks :
                    req'[r].tasks[i].force /\ req'[r].tasks[i].ticker \in union]_vars

\* The job is refreshing the position's ticker and not the ticker of the alerts, which
\* are all inactive.
C16_Witness ==
    \E r \in Slots :
        /\ req[r].kind = "refresh" /\ req[r].pc = "gather"
        /\ alerts # {} /\ \A a \in alerts : ~a.is_active /\ a.ticker = "BTC"
        /\ {req[r].tasks[i].ticker : i \in DOMAIN req[r].tasks} = {"ETH"}
        /\ ForcedCalls(req[r].tasks, "ETH") # {}

\* C17: a background job that has ended, normally or by an exception raised after
\* the handles were acquired or while the other handle was released, has called
\* aclose on the cache client exactly once and dispose on the engine exactly once.
C17_BothHandlesReleasedOnce ==
    \A r \in Slots :
        (req[r].kind \in {"refresh", "snapshot"} /\ req[r].pc = "done") =>
            (req[r].job.aclose = 1 /\ req[r].job.dispose = 1)

(***************************************************************************)
(* Claims about the history snapshots                                      *)
(***************************************************************************)
\* The snapshot job's commit is executed in this step.
CommitsSnapshots(r) ==
    req[r].kind = "snapshot" /\ req[r].pc = "commit" /\ req'[r].pc # "commit"

OnePerDay(rows) ==
    \A a \in rows, b \in rows : (a.portfolio_id = b.portfolio_id /\ a.date = b.date) => a = b

\* The write w of a committing writer is in the table: one row for its portfolio and
\* date, with its values.
Written(rows, w) ==
    /\ Cardinality(SameDay(rows, w.h)) = 1
    /\ \A x \in SameDay(rows, w.h) :
          x.total_value = w.h.total_value /\ x.total_pnl_percentage = w.h.total_pnl_percentage

\* C18: there is at most one snapshot per (portfolio, date), and a writer's commit
\* leaves exactly one row for its (portfolio, date) with the writer's total value and
\* PnL%, also when another writer runs at the same time.
C18_OneSnapshotPerDay ==
    [][/\ OnePerDay(history'.rows)
       /\ \A r \in Slots : CommitsSnapshots(r) =>
             /\ req'[r].job.error = ""
             /\ \A i \in DOMAIN req[r].job.pending :
                   Written(history'.rows, req[r].job.pending[i])]_vars

\* create_portfolio_history is called for the portfolio whose prices were gathered.
Stages(r) ==
    req[r].kind = "snapshot" /\ req[r].pc = "gather"
        /\ Len(req'[r].job.pending) = Len(req[r].job.pending) + 1

\* The totals of a holding for the prices gathered for its assets, from the
\* quantities and unit costs of its rows.
ResolvedRows(pid, tasks) ==
    {a \in assets : a.portfolio_id = pid /\
        \E i \in DOMAIN tasks : tasks[i].ticker = a.ticker /\ tasks[i].result # None}

PriceOf(tasks, ticker) ==
    tasks[CHOOSE i \in DOMAIN tasks : tasks[i].ticker = ticker].result[1]

RECURSIVE TotalOver(_, _, _)
TotalOver(rows, tasks, use_price) ==
    IF rows = {} THEN 0
    ELSE LET a == CHOOSE x \in rows : TRUE
         IN  a.quantity * (IF use_price THEN PriceOf(tasks, a.ticker) ELSE a.avg_buy_price)
                 + TotalOver(rows \ {a}, tasks, use_price)

HoldingValue(pid, tasks) == TotalOver(ResolvedRows(pid, tasks), tasks, TRUE)

HoldingCost(pid, tasks) == TotalOver(ResolvedRows(pid, tasks), tasks, FALSE)

\* C19: create_daily_snapshots valuates every portfolio of the system and stages for
\* each one a snapshot dated today with the portfolio's total value and total PnL%;
\* the table changes only in the one commit at the end, which leaves one row per
\* portfolio for today with these values; the count returned is the number of
\* snapshots written.
C19_SnapshotAll ==
    [][/\ \A r \in Slots : Stages(r) =>
             LET w == req'[r].job.pending[Len(req'[r].job.pending)]
                 pid == req[r].job.ports[req[r].job.idx].id
                 value == HoldingValue(pid, req[r].tasks)
                 cost == HoldingCost(pid, req[r].tasks)
             IN  /\ w.h.portfolio_id = pid
                 /\ w.h.date = req[r].job.today
                 /\ w.h.total_value = Some(value)
                 /\ w.h.total_pnl_percentage =
                        IF cost > 0 THEN Some(Frac((value - cost) * 100, cost)) ELSE None
       /\ \A r \in Slots : CommitsSnapshots(r) =>
             /\ req'[r].job.error = ""
             /\ {req[r].job.pending[i].h.portfolio_id : i \in DOMAIN req[r].job.pending}
                    = {p.id : p \in portfolios}
             /\ \A i \in DOMAIN req[r].job.pending :
                   /\ req[r].job.pending[i].h.date = req[r].job.today
                   /\ Written(history'.rows, req[r].job.pending[i])
             /\ req'[r].job.returned = Some(Len(req[r].job.pending))
             /\ req'[r].job.returned = Some(Cardinality(portfolios))
       /\ history' # history => \E r \in Slots : CommitsSnapshots(r)]_vars

\* A run has returned 2 after its commit updated today's snapshot of portfolio 1 in
\* place and left one row per portfolio for today.
C19_Witness ==
    \E r \in Slots :
        /\ req[r].kind = "snapshot" /\ req[r].pc = "finally"
        /\ req[r].job.returned = Some(2)
        /\ \E i \in DOMAIN req[r].job.pending :
              /\ req[r].job.pending[i].op = "update"
              /\ req[r].job.pending[i].h.total_value = Some(1500)
        /\ \A p \in portfolios :
              \E x \in history.rows :
                 /\ SameDay(history.rows, [portfolio_id |-> p.id, date |-> req[r].job.today]) = {x}
                 /\ x.total_value # None
                 /\ (p.id = 1 => x.total_value = Some(1500))

(***************************************************************************)
(* Claims about the errors of a contribution                               *)
(***************************************************************************)
\* The portfolios with the id the caller names, and whether the caller owns one.
Named(rq) == {p \in portfolios : p.id = rq.pid}

Owns(rq) == \E p \in Named(rq) : p.user_id = rq.user

\* add_asset_to_portfolio gets the answer of the first SELECT of get_portfolio's load
\* in this step.
Loads(r) == req[r].kind = "add" /\ req[r].pc = "load" /\ req'[r].pc # "load"

\* It gets the portfolio with its assets and compares the owner in this step.
ChecksOwner(r) ==
    req[r].kind = "add" /\ req[r].pc = "load_assets" /\ req'[r].pc # "load_assets"

\* C20: a contribution to a portfolio that does not exist ends with 404 and one to a
\* portfolio of another user with 403, both at the load, before the lookup of the
\* position and the arithmetic; no position is created or changed by it: positions
\* change only in the commit of a contribution of the portfolio's owner.
C20_DeniedBeforeArithmetic ==
    [][/\ \A r \in Slots : Loads(r) =>
             /\ assets' = assets
             /\ Named(req[r]) = {} => (req'[r].pc = "done" /\ req'[r].out.status = 404)
             /\ Named(req[r]) # {} => req'[r].pc = "load_assets"
       /\ \A r \in Slots : (ChecksOwner(r) /\ ~Owns(req[r])) =>
             (req'[r].pc = "done" /\ req'[r].out.status = 403 /\ assets' = assets)
       /\ \A r \in Slots :
             (req'[r].kind = "add" /\ req'[r].pc \in {"gather", "lookup", "commit"}) =>
                 Owns(req'[r])
       /\ assets' # assets =>
             \E r \in Slots : req[r].kind = "add" /\ req[r].pc = "commit" /\ Owns(req[r])]_vars

\* One contribution has ended with 403 and one with 404 while the owner's position
\* exists.
C20_Witness ==
    /\ \E r \in Slots : /\ req[r].kind = "add" /\ req[r].pc = "done"
                        /\ req[r].out.status = 403 /\ req[r].user = 2 /\ req[r].pid = 1
    /\ \E r \in Slots : /\ req[r].kind = "add" /\ req[r].pc = "done"
                        /\ req[r].out.status = 404 /\ req[r].pid = 2
    /\ \E a \in assets : a.portfolio_id = 1 /\ a.ticker = "BTC"

(***************************************************************************)
(* Claims about the client, the price service and the jobs' order          *)
(***************************************************************************)
\* The response is the documented one: a success status and {coin_id: {"usd": number}}.
WellFormed(response, coin_id) ==
    /\ response.kind = "http" /\ response.status \in 200..299 /\ response.body = "object"
    /\ response.coin = coin_id /\ response.usd_type = "number"

\* C21: get_current_price never raises; for an unmapped ticker it returns None and
\* makes no request; for a timeout, an HTTP error status or a body that is not the
\* documented one it returns None.
C21_AbsentOnEveryFault ==
    \A r \in Slots :
        (req[r].kind = "client" /\ req[r].pc = "done") =>
            /\ req[r].out.status = 200
            /\ Upper(req[r].ticker) \notin DOMAIN ticker_map =>
                   (req[r].out.price = None /\ req[r].out.requests = 0)
            /\ (Upper(req[r].ticker) \in DOMAIN ticker_map
                  /\ ~WellFormed(req[r].response[1], ticker_map[Upper(req[r].ticker)])) =>
                   req[r].out.price = None

\* The request names a name that another portfolio of the same owner has now: the
\* caller's for a create, the owner of the renamed portfolio's for an update.
NameTaken(rq) ==
    \/ /\ rq.kind = "create_portfolio"
       /\ \E p \in portfolios : p.user_id = rq.user /\ p.name = rq.name
    \/ /\ rq.kind = "update_portfolio"
       /\ \E p \in portfolios, q \in portfolios :
             /\ p.id = rq.pid /\ p.user_id = rq.user
             /\ q.id # p.id /\ q.user_id = p.user_id /\ q.name = rq.name

\* The step of slot r that settles the name: the name check or the INSERT of a
\* create, the commit of an update.
SettlesName(r) ==
    \/ req[r].kind = "create_portfolio" /\ req[r].pc \in {"check", "insert"}
                                        /\ req'[r].pc # req[r].pc
    \/ req[r].kind = "update_portfolio" /\ req[r].pc = "lookup" /\ req'[r].pc # "lookup"

\* C22: no two portfolios of one owner have the same name, and a create or a rename
\* to a name the owner already uses ends with 409 and changes no portfolio.
C22_UniqueNamesAndConflict ==
    [][/\ \A p \in portfolios', q \in portfolios' :
             (p.user_id = q.user_id /\ p.name = q.name) => p = q
       /\ \A r \in Slots :
             (NameTaken(req[r]) /\ SettlesName(r)) =>
                 (req'[r].pc = "done" /\ req'[r].out.status = 409 /\ portfolios' = portfolios)]_vars

\* The merge of slot r commits into a row that another contribution has changed
\* since slot r read it.
CommitsOverChange(r) ==
    /\ Commits(r) /\ req[r].existing # None
    /\ \E a \in assets : a.id = req[r].existing[1].id /\ a.quantity # req[r].existing[1].quantity

\* C23: the merge is a read-modify-write without a lock: a merge that commits after
\* another contribution has changed the row it read writes the quantity it read plus
\* its own, so the stored quantity is less than the row's quantity plus its own: the
\* other contribution is lost.
C23_LostUpdate ==
    [][\A r \in Slots : CommitsOverChange(r) =>
          \E a \in assets, b \in assets' :
             /\ a.id = req[r].existing[1].id /\ b.id = a.id
             /\ b.quantity = RoundQty(req[r].existing[1].quantity + req[r].qty)
             /\ b.quantity < a.quantity + req[r].qty]_vars

\* Three contributions of 10 each are committed, two of them merged after reading
\* the same position of 10, and the position holds 20.
C23_Witness ==
    \E a \in assets :
        /\ a.ticker = "BTC" /\ a.quantity = 20
        /\ Len(Hist(a)) = 3 /\ SumQ(Hist(a)) = 30
        /\ contrib[<<a.portfolio_id, a.ticker>>].lost
        /\ \A r \in Slots : req[r].kind = "add" => req[r].pc = "done"

\* The evaluation of the alerts has started and has not ended in slot r.
Evaluating(r) ==
    req[r].kind = "refresh" /\ req[r].pc \in {"active", "check", "notify", "commit"}

\* C24: while the refresh job evaluates alerts, every get_price of its gather has
\* returned, and the cache holds for every ticker the price this run's refresh
\* fetched for it.
C24_EvaluationAfterJoin ==
    \A r \in Slots : Evaluating(r) =>
        /\ AllDone(r)
        /\ \A i \in TaskIdx(r) :
              /\ req[r].tasks[i].calls = 1
              /\ req[r].tasks[i].result # None =>
                    RedisGet(cache, CacheKey(req[r].tasks[i].ticker))
                        = Some(FloatStr(req[r].tasks[i].result[1]))

\* An alert on BTC is being evaluated after the run has refreshed BTC and ETH.
C24_Witness ==
    \E r \in Slots :
        /\ req[r].kind = "refresh" /\ req[r].pc = "check"
        /\ Len(req[r].tasks) = 2
        /\ \E i \in TaskIdx(r) : req[r].tasks[i].ticker = "BTC" /\ req[r].tasks[i].result = Some(150)
        /\ RedisGet(cache, "price:BTC") = Some("1.5")

\* C25: a get_price with force_refresh=True makes no cache read and exactly one call
\* of the source, whatever the cache holds; when the source returns a price, the one
\* cache.set it makes replaces the value under the key and sets the TTL to 600 s.
C25_ForceBypassesCache ==
    /\ [](\A t \in AllTasks :
            t.force => /\ t.gets = 0 /\ t.seen = None
                       /\ t.pc = "done" => (t.calls = 1 /\ t.result = t.fetched)
                       /\ (t.pc = "done" /\ t.fetched # None) => t.sets = 1)
    /\ [][\A r \in Slots : \A i \in TaskIdx(r) :
            (req[r].tasks[i].force /\ req[r].tasks[i].pc = "set"
               /\ req'[r].tasks[i].pc = "done") =>
                LET t == req[r].tasks[i]
                    key == "price:" \o (IF t.ticker = "btc" THEN "BTC" ELSE t.ticker)
                IN  cache'[key] = Some([val |-> FloatStr(t.fetched[1]), ttl |-> 600])]_vars

\* A forced get_price has fetched a price from the source while the cache holds
\* another value for the key that has not expired.
C25_Witness ==
    \E t \in AllTasks :
        /\ t.force /\ t.pc = "set" /\ t.calls = 1 /\ t.gets = 0
        /\ t.fetched = Some(0)
        /\ cache[CacheKey(t.ticker)] = Some([val |-> "1.5", ttl |-> 300])

\* C26: a pass writes its deactivations in one commit after the last alert was
\* evaluated: the session is committed only when the loop is over and an alert has
\* fired; the stored flags change in that step only, all fired alerts together, and
\* the pass goes on to its end from there, so it commits at most once.
C26_OneCommitAfterLoop ==
    /\ [](\A r \in Slots :
            (req[r].kind = "refresh" /\ req[r].pc = "commit") =>
                /\ req[r].job.idx = Len(req[r].job.active) + 1
                /\ Len(req[r].job.checked) = Len(req[r].job.active)
                /\ req[r].job.triggered_count > 0
                /\ req[r].job.triggered_count = Cardinality(req[r].job.fired))
    /\ [][Deactivated # {} =>
            \E r \in Slots :
                /\ req[r].kind = "refresh" /\ req[r].pc = "commit"
                /\ req'[r].pc = "finally"
                /\ Deactivated = req[r].job.fired]_vars
    /\ [][\A r \in Slots :
            (req[r].kind = "refresh" /\ req[r].pc \in {"finally", "dispose", "done"}) =>
                req'[r].pc # "commit"]_vars

\* A pass in which two alerts fired has committed: both are stored inactive.
C26_Witness ==
    \E r \in Slots :
        /\ req[r].kind = "refresh" /\ req[r].pc = "finally"
        /\ req[r].job.returned = Some(2)
        /\ Cardinality(req[r].job.fired) = 2
        /\ \A a \in alerts : a.id \in req[r].job.fired => ~a.is_active
        /\ req[r].job.fired \subseteq {a.id : a \in alerts}

(***************************************************************************)
(* Claims about the gather of the valuation and about faults               *)
(***************************************************************************)
\* C27: valuate starts one get_price without force_refresh per position, each for the
\* ticker of its position; the totals are computed only when all of them have
\* returned, and in the returned holding each position carries the price its own
\* lookup returned, in whatever order the lookups completed.
C27_OneLookupPerPosition ==
    /\ [](\A r \in Slots :
            (req[r].kind = "valuate" /\ req[r].tasks # << >>) =>
                /\ Len(req[r].tasks) = Len(req[r].port[1].assets)
                /\ \A i \in TaskIdx(r) :
                     /\ ~req[r].tasks[i].force
                     /\ req[r].tasks[i].ticker = req[r].port[1].assets[i].ticker
                     /\ req[r].tasks[i].gets <= 1 /\ req[r].tasks[i].calls <= 1)
    /\ [](\A r \in Slots : Valuated(r) =>
            /\ AllDone(r)
            /\ \A i \in TaskIdx(r) :
                 /\ req[r].out.portfolio.assets[i].ticker = req[r].tasks[i].ticker
                 /\ req[r].out.portfolio.assets[i].current_price = GatheredPrice(r, i)
            /\ req[r].out.portfolio.total_value = Some(ExpectedValue(r)))
    /\ [][\A r \in Slots :
            (req[r].kind = "valuate" /\ req[r].pc = "gather" /\ req'[r].pc # "gather") =>
                AllDone(r)]_vars

\* A valuation has returned two different prices, both fetched by its own lookups,
\* and the lookup of the second position completed before the lookup of the first:
\* the value it cached is older.
C27_Witness ==
    \E r \in Slots :
        /\ Valuated(r) /\ Len(req[r].tasks) = 2
        /\ req[r].tasks[1].sets = 1 /\ req[r].tasks[2].sets = 1
        /\ GatheredPrice(r, 1) # GatheredPrice(r, 2)
        /\ cache[CacheKey(req[r].tasks[1].ticker)] # None
        /\ cache[CacheKey(req[r].tasks[2].ticker)] # None
        /\ cache[CacheKey(req[r].tasks[2].ticker)][1].ttl
             < cache[CacheKey(req[r].tasks[1].ticker)][1].ttl

\* The same with the lookup of the first position completing first.
C27_WitnessInOrder ==
    \E r \in Slots :
        /\ Valuated(r) /\ Len(req[r].tasks) = 2
        /\ req[r].tasks[1].sets = 1 /\ req[r].tasks[2].sets = 1
        /\ GatheredPrice(r, 1) # GatheredPrice(r, 2)
        /\ cache[CacheKey(req[r].tasks[1].ticker)] # None
        /\ cache[CacheKey(req[r].tasks[2].ticker)] # None
        /\ cache[CacheKey(req[r].tasks[1].ticker)][1].ttl
             < cache[CacheKey(req[r].tasks[2].ticker)][1].ttl

\* The snapshot job in slot r has met a fault of a valuation or of an upsert.
Faulted(r) == req[r].kind = "snapshot" /\ req[r].job.error \in SnapshotFaults

\* No snapshot of a faulted run is committed: the table changes only in the commit
\* of a run that staged every portfolio without a fault, and a faulted run never
\* gets to a commit and returns no count.
C28_NoPartialBatch ==
    /\ [](\A r \in Slots : Faulted(r) =>
            /\ req[r].pc \in {"finally", "dispose", "done"}
            /\ req[r].job.returned = None)
    /\ [][history' # history =>
            \E r \in Slots :
                /\ CommitsSnapshots(r) /\ req[r].job.error = ""
                /\ Len(req[r].job.pending) = Cardinality(portfolios)]_vars
    /\ [][\A r \in Slots : Faulted(r) => history' = history /\ req'[r].pc # "commit"]_vars

\* The exception goes on to the caller of the job.
C28_Propagates ==
    [][\A r \in Slots :
          (Faulted(r) /\ req'[r].pc = "done" /\ req[r].pc # "done") =>
              req'[r].out.status = 500]_vars

\* C28: when the valuation or the upsert of a holding raises in the snapshot job, the
\* exception leaves the job, no snapshot of the run is committed for any holding,
\* and the job has released both of its handles when it ends.
C28_FaultAbortsBatch ==
    /\ C28_NoPartialBatch
    /\ C28_Propagates
    /\ [][\A r \in Slots :
            (Faulted(r) /\ req'[r].pc = "done" /\ req[r].pc # "done") =>
                (req'[r].job.aclose = 1 /\ req'[r].job.dispose = 1)]_vars

\* The same for the runs in which aclose returns.
C28_FaultAbortsBatchWhenClosed ==
    /\ C28_NoPartialBatch
    /\ C28_Propagates
    /\ [][\A r \in Slots :
            (Faulted(r) /\ req'[r].pc = "done" /\ req[r].pc = "dispose") =>
                (req'[r].job.aclose = 1 /\ req'[r].job.dispose = 1)]_vars

\* A run met a fault after it had staged the snapshot of the first portfolio, and has
\* ended with both handles released and nothing written.
C28_WitnessAborted ==
    \E r \in Slots :
        /\ Faulted(r) /\ req[r].pc = "done"
        /\ req[r].job.pending # << >> /\ history.rows = {}
        /\ req[r].job.aclose = 1 /\ req[r].job.dispose = 1

\* The run of slot r has met a fault of the cache backend: in a lookup of the gather
\* or in the read of the evaluator.
CacheFaulted(rq) == HasRaised(rq) \/ (rq.kind = "refresh" /\ rq.job.error = "read")

\* C29 as stated: a fault of the cache backend ends a valuation with the exception,
\* and a refresh job that meets one has evaluated no alert, notified none and
\* deactivates none.
C29_CacheFaultBeforeEvaluation ==
    /\ [](\A r \in Slots : CacheFaulted(req[r]) =>
            /\ (req[r].kind = "valuate" /\ req[r].pc = "done") => req[r].out = [status |-> 500]
            /\ req[r].kind = "refresh" =>
                 /\ req[r].job.checked = << >> /\ req[r].job.sent = << >>
                 /\ req[r].job.fired = {} /\ req[r].job.returned = None
                 /\ req[r].pc = "done" => req[r].out.status = 500)
    /\ [][\A r \in Slots :
            (CacheFaulted(req[r]) /\ req[r].kind \in {"valuate", "refresh"}) =>
                Deactivated = {}]_vars

\* C29: an exception of redis.get or redis.set leaves get_price and reaches the
\* caller: a valuation with such a lookup ends with the exception and returns no
\* holding, and a refresh job with such a lookup goes to its finally block without
\* evaluating an alert: it notifies nothing, deactivates nothing and ends with the
\* exception.  An exception of the evaluator's own redis.get ends the job with the
\* exception as well, during the evaluation: the pass is left without a commit, so
\* that no alert is deactivated in that run and the alerts notified before the
\* exception stay active.
C29_CacheFaultIsFatal ==
    /\ [](\A r \in Slots : HasRaised(req[r]) =>
            /\ \A i \in TaskIdx(r) :
                 req[r].tasks[i].pc = "raised" => req[r].tasks[i].result = None
            /\ (req[r].kind = "valuate" /\ req[r].pc = "done") => req[r].out = [status |-> 500]
            /\ req[r].kind = "refresh" =>
                 /\ req[r].pc \in {"gather", "finally", "dispose", "done"}
                 /\ req[r].job.checked = << >> /\ req[r].job.sent = << >>
                 /\ req[r].job.fired = {} /\ req[r].job.returned = None
                 /\ req[r].pc = "done" => req[r].out.status = 500)
    /\ [][\A r \in Slots :
            (HasRaised(req[r]) /\ req[r].kind \in {"valuate", "refresh"}) =>
                /\ Deactivated = {}
                /\ req'[r].pc \notin {"lookup", "active", "check", "notify", "commit"}]_vars
    /\ [](\A r \in Slots : (req[r].kind = "refresh" /\ req[r].job.error = "read") =>
            /\ req[r].pc \in {"finally", "dispose", "done"}
            /\ req[r].job.returned = None
            /\ req[r].pc = "done" => req[r].out.status = 500
            /\ \A a \in alerts : a.id \in req[r].job.fired => a.is_active)
    /\ [][\A r \in Slots :
            (req'[r].kind = "refresh" /\ req'[r].job.error = "read") =>
                /\ Deactivated = {}
                /\ req'[r].pc \notin {"check", "notify", "commit"}]_vars

\* A valuation has ended with the exception of a failing redis.get.
C29_Witness ==
    \E r \in Slots :
        /\ req[r].kind = "valuate" /\ req[r].pc = "done" /\ req[r].out.status = 500
        /\ \E i \in TaskIdx(r) : req[r].tasks[i].pc = "raised" /\ req[r].tasks[i].gets = 1

\* A refresh job has ended with the exception of a failing redis.set while an active
\* alert was past its target for the price the provider returned.
C29_WitnessJob ==
    \E r \in Slots :
        /\ req[r].kind = "refresh" /\ req[r].pc = "done" /\ req[r].job.error = "gather"
        /\ \E i \in TaskIdx(r) :
              /\ req[r].tasks[i].pc = "raised" /\ req[r].tasks[i].sets = 1
              /\ \E a \in alerts :
                    /\ a.is_active /\ a.ticker = req[r].tasks[i].ticker
                    /\ IsTriggered(a, req[r].tasks[i].fetched[1])

\* A refresh job has ended with the exception of the evaluator's failing redis.get
\* after it had notified an alert, which is still active.
C29_WitnessRead ==
    \E r \in Slots :
        /\ req[r].kind = "refresh" /\ req[r].pc = "done" /\ req[r].job.error = "read"
        /\ req[r].out.status = 500 /\ req[r].job.sent # << >>
        /\ \E a \in alerts : a.id \in req[r].job.fired /\ a.is_active

(***************************************************************************)
(* Claims about the stored positions                                       *)
(***************************************************************************)
\* The merge of add_asset_to_portfolio is about to be committed in slot r.
Merging(r) == req[r].kind = "add" /\ req[r].pc = "commit" /\ req[r].existing # None

\* The unit cost of every stored position is positive, and the total quantity a
\* merge computes is positive, so its guard never takes the Decimal(0) branch.
C30_PositiveCostAndTotal ==
    /\ \A a \in assets : a.avg_buy_price > 0 /\ a.quantity >= 0
    /\ \A r \in Slots : Merging(r) =>
          /\ req[r].qty > 0 /\ req[r].cost > 0
          /\ req[r].existing[1].quantity + req[r].qty > 0

\* C30: every stored position has a quantity above 0 and a unit cost above 0, and
\* no merge computes a total quantity of 0.
C30_PositiveQuantityAndCost ==
    /\ C30_PositiveCostAndTotal
    /\ \A a \in assets : a.quantity > 0

\* A merge is about to add a contribution to a position stored with quantity 0.
C30_WitnessMergeOntoZero ==
    \E r \in Slots :
        /\ Merging(r)
        /\ req[r].existing[1].quantity = 0
        /\ \E a \in assets : a.id = req[r].existing[1].id /\ a.quantity = 0

(***************************************************************************)
(* Claims about the cache keys of alerts                                   *)
(***************************************************************************)
\* C31: every stored alert holds a ticker for which the key the evaluator reads,
\* price:<alert.ticker>, is the key get_price writes, price:<ticker.upper()>; the
\* evaluator sees for an alert what the cache holds under the key of get_price, and
\* a payload whose ticker is not upper-case alphanumeric stores nothing.
C31_SameCacheKey ==
    /\ [](\A a \in alerts : AlertCacheKey(a.ticker) = CacheKey(a.ticker))
    /\ [](\A r \in Slots :
            (req[r].kind = "create_alert" /\ req[r].pc = "done") =>
                (req[r].out.status = 201 <=> req[r].ticker = StrUpper(req[r].ticker)
                                              /\ req[r].ticker \in Tickers))
    /\ [][\A r \in Slots : Evaluates(r) =>
            req'[r].job.checked[Len(req'[r].job.checked)].seen
                = RedisGet(cache, CacheKey(EvaluatedAlert(r).ticker))]_vars

\* The evaluator has read, for an alert posted with ticker BTC, the price a forced
\* refresh of the same run wrote, after a payload with ticker btc was refused.
C31_Witness ==
    /\ \E r \in Slots :
          /\ req[r].kind = "refresh" /\ req[r].job.checked # << >>
          /\ req[r].job.checked[1].seen = Some("1.5")
          /\ \E i \in TaskIdx(r) : req[r].tasks[i].ticker = "BTC" /\ req[r].tasks[i].sets = 1
    /\ \E r \in Slots :
          req[r].kind = "create_alert" /\ req[r].pc = "done"
              /\ req[r].ticker = "btc" /\ req[r].out.status = 422

(***************************************************************************)
(* Claims about deletions                                                  *)
(***************************************************************************)
OfHolding(rows, pid) == {a \in rows : a.portfolio_id = pid}

\* C32: the commit of delete_portfolio removes the holding and every position of it
\* and nothing else; the commit of remove_asset removes the one row it looked up, of
\* the requested holding and ticker, and changes no holding and no other position;
\* remove_asset for a ticker the holding does not have ends with 404 and deletes
\* nothing.
C32_DeletesExactly ==
    [][\A r \in Slots :
          /\ (req[r].kind = "delete_portfolio" /\ req[r].pc = "lookup" /\ req'[r].pc = "done") =>
                /\ OfHolding(assets', req[r].pid) = {}
                /\ assets' = assets \ OfHolding(assets, req[r].pid)
                /\ portfolios' = {p \in portfolios : p.id # req[r].pid}
          /\ (req[r].kind = "remove" /\ req[r].pc = "commit" /\ req'[r].pc = "done") =>
                /\ portfolios' = portfolios
                /\ assets' = {a \in assets : a.id # req[r].existing[1].id}
                /\ \A a \in assets \ assets' :
                      a.portfolio_id = req[r].pid /\ a.ticker = req[r].ticker
          /\ (req[r].kind = "remove" /\ req[r].pc = "lookup" /\ req'[r].pc # "lookup"
                /\ ~\E a \in assets : a.portfolio_id = req[r].pid /\ a.ticker = req[r].ticker) =>
                /\ req'[r].pc = "done" /\ req'[r].out.status = 404
                /\ assets' = assets /\ portfolios' = portfolios]_vars

\* delete_portfolio has removed holding 1 with its positions while holding 2 keeps
\* the position contributed to it.
C32_Witness ==
    \E r \in Slots :
        /\ req[r].kind = "delete_portfolio" /\ req[r].pc = "done" /\ req[r].out.status = 204
        /\ PortfolioRow(1) = None /\ OfHolding(assets, 1) = {}
        /\ PortfolioRow(2) # None /\ OfHolding(assets, 2) # {}

\* remove_asset has removed BTC from holding 1, whose ETH position is as it was.
C32_WitnessRemoved ==
    \E r \in Slots :
        /\ req[r].kind = "remove" /\ req[r].pc = "done" /\ req[r].out.status = 204
        /\ req[r].ticker = "BTC"
        /\ OfHolding(assets, 1) = {a \in HoldingA : a.ticker = "ETH"}

\* remove_asset of a ticker the holding does not have has ended with 404.
C32_WitnessNotFound ==
    \E r \in Slots :
        /\ req[r].kind = "remove" /\ req[r].pc = "done" /\ req[r].out.status = 404
        /\ req[r].ticker = "AAPL" /\ OfHolding(assets, 1) = HoldingA

(***************************************************************************)
(* Claims about what a merge leaves alone                                  *)
(***************************************************************************)
\* The merge of slot r is committed in this step.
CommitsMerge(r) ==
    /\ Merging(r) /\ req'[r].pc = "done"
    /\ \E a \in assets : a.id = req[r].existing[1].id

\* C33: the commit of a merge changes the quantity and the unit cost of the
\* position it merges into and nothing else: the row keeps its id, ticker, holding
\* and asset class, whatever asset class the contribution carries, and every other
\* row is as it was.
C33_MergeKeepsTheRest ==
    [][\A r \in Slots : CommitsMerge(r) =>
          LET before == AssetRow(req[r].existing[1].id)
              after == CHOOSE a \in assets' : a.id = before.id
          IN  /\ \E a \in assets' : a.id = before.id
              /\ after.ticker = before.ticker
              /\ after.portfolio_id = before.portfolio_id
              /\ after.asset_type = before.asset_type
              /\ assets' \ {after} = assets \ {before}
              /\ portfolios' = portfolios
              /\ req'[r].out.asset_type = before.asset_type
              /\ req'[r].out.id = before.id]_vars

\* A contribution of class STOCK has been merged into a CRYPTO position, which has
\* a new quantity and unit cost and is still CRYPTO.
C33_Witness ==
    \E r \in Slots :
        /\ req[r].kind = "add" /\ req[r].pc = "done" /\ req[r].out.status = 201
        /\ req[r].out.merged /\ req[r].atype = "STOCK"
        /\ req[r].out.before.asset_type = "CRYPTO"
        /\ \E a \in assets :
              /\ a.id = req[r].out.id /\ a.asset_type = "CRYPTO"
              /\ a.quantity # req[r].out.before.quantity
              /\ a.avg_buy_price # req[r].out.before.avg_buy_price

(***************************************************************************)
(* Claims about concurrent writers of the price cache                      *)
(***************************************************************************)
\* The strings the provider's prices of a ticker are cached as.
QuotedFor(t) ==
    IF t = "ETH" THEN {FloatStr(p) : p \in EthPrices}
    ELSE IF t = "BTC" THEN {FloatStr(p) : p \in Prices}
    ELSE {}

EntriesAreSourcePrices ==
    \A t \in ArgTickers :
        \/ cache["price:" \o t] = None
        \/ cache["price:" \o t][1].val \in QuotedFor(t)

\* Task i of slot r executes its redis.set in this step.
Writes(r, i) ==
    /\ req[r].pc = "gather"
    /\ i \in DOMAIN req[r].tasks
    /\ req[r].tasks[i].pc = "set"
    /\ req'[r].pc = "gather"
    /\ req'[r].tasks[i].pc = "done"

\* C34: while the refresh job forces prices and requests call get_price, every
\* cache entry price:<T> is absent or holds a price the provider returned for T,
\* and a write replaces whatever an earlier writer left under its key by its own
\* price with a fresh time to live, leaving the other keys alone.
C34_EntriesAreSourcePrices ==
    /\ []EntriesAreSourcePrices
    /\ [][\A r \in Slots : \A i \in {1, 2} :
            Writes(r, i) =>
                LET task == req[r].tasks[i]
                    key == "price:" \o Upper(task.ticker)
                IN  /\ task.fetched # None
                    /\ cache'[key] = Some([val |-> FloatStr(task.fetched[1]),
                                           ttl |-> CACHE_EXPIRE_SECONDS])
                    /\ \A k \in CacheKeys \ {key} : cache'[k] = cache[k]]_vars

\* The job and a request have both written a price of BTC, the request after the
\* job, and the entry holds the request's older price.
C34_Witness ==
    /\ req[1].kind = "refresh" /\ req[1].pc = "gather"
    /\ \E i \in DOMAIN req[1].tasks :
          /\ req[1].tasks[i].ticker = "BTC"
          /\ req[1].tasks[i].pc = "done"
          /\ req[1].tasks[i].sets = 1
          /\ req[1].tasks[i].result = Some(150)
    /\ req[2].pc = "gather"
    /\ req[2].tasks[1].ticker = "btc"
    /\ req[2].tasks[1].pc = "done"
    /\ req[2].tasks[1].sets = 1
    /\ req[2].tasks[1].result = Some(0)
    /\ cache["price:BTC"] # None
    /\ cache["price:BTC"][1].val = "0.0"
    /\ cache["price:ETH"] # None

\* The job's price of ETH is cached while BTC has no entry.
C34_WitnessEth ==
    /\ cache["price:ETH"] # None
    /\ cache["price:ETH"][1].val = "3.0"
    /\ cache["price:BTC"] = None
    /\ source["BTC"] # None

(***************************************************************************)
(* Two runs of the refresh job overlap: the beat schedule sends a run      *)
(* every 300 seconds and nothing keeps a worker from starting it while the *)
(* previous one is still running                                           *)
(***************************************************************************)
InitOverlap ==
    /\ cache = [k \in CacheKeys |-> None]
    /\ source = [t \in Mapped |-> IF t = "BTC" THEN Some(150) ELSE None]
    /\ portfolios = {[id |-> 1, user_id |-> 1, name |-> "Crypto", description |-> None]}
    /\ nextPortfolioId = 2
    /\ assets = {}
    /\ nextAssetId = 1
    /\ req = [r \in Slots |-> Idle]
    /\ sess = [r \in Slots |-> NoSession]
    /\ contrib = [k \in PortfolioIds \X Tickers |-> NoContrib]
    /\ lastVal = [p \in PortfolioIds |-> NoValuation]
    /\ win = [k \in CacheKeys |-> NoWindow]
    /\ alerts = {NewAlert(1, 1, "BTC", 100, "ABOVE"), NewAlert(2, 1, "BTC", 100, "ABOVE")}
    /\ nextAlertId = 3
    /\ history = NoHistory
    /\ lastPass = NoPass

NextOverlap ==
    \/ \E r \in Slots : StartRefresh(r)
    \/ \E r \in Slots : SelectAssetTickers(r)
    \/ \E r \in Slots : SelectAlertTickers(r)
    \/ \E r \in Slots : \E i \in TaskIdx(r) : TaskFetch(r, i)
    \/ \E r \in Slots : \E i \in TaskIdx(r) : TaskSet(r, i)
    \/ \E r \in Slots : GatherDone(r)
    \/ \E r \in Slots : LoadActive(r)
    \/ \E r \in Slots : EvalCheck(r, FALSE)
    \/ \E r \in Slots, delivered \in BOOLEAN : Notify(r, delivered)
    \/ \E r \in Slots : CommitAlerts(r)
    \/ \E r \in Slots : ReleaseRedis(r, TRUE)
    \/ \E r \in Slots : DisposeEngine(r, TRUE)
    \/ \E r \in Slots : Finish(r, FALSE)

SpecOverlap == InitOverlap /\ [][NextOverlap]_vars

(***************************************************************************)
(* Claims about repeated notifications                                     *)
(***************************************************************************)
\* _process_alerts of slot r has returned or raised.
PassOver(r) ==
    /\ req[r].kind = "refresh"
    /\ req[r].job.returned # None \/ req[r].job.error \in {"notify", "commit"}

\* The alerts to which the run in slot r has sent a notification.
NotifiedBy(r) == IF req[r].kind = "refresh" THEN req[r].job.fired ELSE {}

\* C35: while no alert is re-armed, an alert is notified by at most one run of the
\* job, and once a pass has returned or raised, every alert it has notified is
\* inactive in the table.
C35_NotifiedOnceAndPersisted ==
    /\ \A r1, r2 \in Slots : r1 # r2 => NotifiedBy(r1) \cap NotifiedBy(r2) = {}
    /\ \A r \in Slots : PassOver(r) =>
          \A a \in alerts : a.id \in NotifiedBy(r) => ~a.is_active

\* The same for passes in which the sink delivers every notification: only the
\* overlap of two runs is left.
C35_NotifiedOnceWhenDelivered ==
    (\A r \in Slots : req[r].kind = "refresh" => req[r].job.error # "notify") =>
        \A r1, r2 \in Slots : r1 # r2 => NotifiedBy(r1) \cap NotifiedBy(r2) = {}

(***************************************************************************)
(* The refresh job runs again and again under fair scheduling while the    *)
(* provider keeps its answers, 1.50 for BTC and 0.0 for ETH.  The beat      *)
(* schedule starts a run every 300 seconds and every await of a run        *)
(* returns; the sink may fail, but not for ever.                           *)
(***************************************************************************)
InitLive ==
    /\ cache = [k \in CacheKeys |-> None]
    /\ source = [t \in Mapped |-> IF t = "BTC" THEN Some(150) ELSE Some(0)]
    /\ portfolios = {[id |-> 1, user_id |-> 1, name |-> "Crypto", description |-> None]}
    /\ nextPortfolioId = 2
    /\ assets = {}
    /\ nextAssetId = 1
    /\ req = [r \in Slots |-> Idle]
    /\ sess = [r \in Slots |-> NoSession]
    /\ contrib = [k \in PortfolioIds \X Tickers |-> NoContrib]
    /\ lastVal = [p \in PortfolioIds |-> NoValuation]
    /\ win = [k \in CacheKeys |-> NoWindow]
    /\ alerts = {NewAlert(1, 1, "BTC", 100, "ABOVE"), NewAlert(2, 1, "ETH", 100, "BELOW")}
    /\ nextAlertId = 3
    /\ history = NoHistory
    /\ lastPass = NoPass

JobStep(r) ==
    \/ StartRefresh(r)
    \/ SelectAssetTickers(r)
    \/ SelectAlertTickers(r)
    \/ \E i \in TaskIdx(r) : TaskFetch(r, i)
    \/ \E i \in TaskIdx(r) : TaskSet(r, i)
    \/ GatherDone(r)
    \/ LoadActive(r)
    \/ EvalCheck(r, FALSE)
    \/ \E delivered \in BOOLEAN : Notify(r, delivered)
    \/ CommitAlerts(r)
    \/ ReleaseRedis(r, TRUE)
    \/ DisposeEngine(r, TRUE)
    \/ Finish(r, FALSE)

NextLive ==
    \/ JobStep(1)
    \/ \E t \in {"BTC", "ETH"} : StartGetPrice(2, t, FALSE)
    \/ TaskGet(2, 1)
    \/ TaskFetch(2, 1)
    \/ TaskSet(2, 1)
    \/ ReturnPrice(2)

SpecLive ==
    /\ InitLive
    /\ [][NextLive]_vars
    /\ WF_vars(JobStep(1))
    /\ SF_vars(Notify(1, TRUE))

(***************************************************************************)
(* Claims about the progress of alerts                                     *)
(***************************************************************************)
\* The provider maps the alert's ticker and its answer satisfies the condition.
SourceSatisfies(id) ==
    \E a \in alerts :
        /\ a.id = id
        /\ Upper(a.ticker) \in DOMAIN ticker_map
        /\ GetCurrentPrice(source, a.ticker) # None
        /\ IsTriggered(a, GetCurrentPrice(source, a.ticker)[1])

IsNotified(id) == \E r \in Slots : req[r].kind = "refresh" /\ id \in req[r].job.fired

IsInactive(id) == \A a \in alerts : a.id = id => ~a.is_active

\* C36: an alert for whose ticker the provider keeps returning a price that
\* satisfies its condition is eventually notified and inactive, under fair
\* scheduling of the refresh job.
C36_EventuallyNotified ==
    \A id \in {1, 2} : ([]SourceSatisfies(id)) => <>(IsNotified(id) /\ IsInactive(id))

\* The same for the runs in which the sink never fails.
C36_EventuallyNotifiedWhenDelivered ==
    ([](\A r \in Slots : req[r].job.error # "notify")) => C36_EventuallyNotified

(***************************************************************************)
(* The owner moves the target of an alert, or switches it off and on,      *)
(* while the refresh job runs                                              *)
(***************************************************************************)
RaceUpdatesIn ==
    {[NoUpdate EXCEPT !.target_price = Some(200)], [NoUpdate EXCEPT !.target_price = Some(100)],
     [NoUpdate EXCEPT !.is_active = Some(TRUE)], [NoUpdate EXCEPT !.is_active = Some(FALSE)],
     [NoUpdate EXCEPT !.condition = Some("BELOW")], [NoUpdate EXCEPT !.condition = Some("ABOVE")]}

InitAlertRace ==
    /\ cache = [k \in CacheKeys |-> None]
    /\ source = [t \in Mapped |-> IF t = "BTC" THEN Some(150) ELSE None]
    /\ portfolios = {[id |-> 1, user_id |-> 1, name |-> "Crypto", description |-> None]}
    /\ nextPortfolioId = 2
    /\ assets = {}
    /\ nextAssetId = 1
    /\ req = [r \in Slots |-> Idle]
    /\ sess = [r \in Slots |-> NoSession]
    /\ contrib = [k \in PortfolioIds \X Tickers |-> NoContrib]
    /\ lastVal = [p \in PortfolioIds |-> NoValuation]
    /\ win = [k \in CacheKeys |-> NoWindow]
    /\ alerts = {NewAlert(1, 1, "BTC", 100, "ABOVE")}
    /\ nextAlertId = 2
    /\ history = NoHistory
    /\ lastPass = NoPass

NextAlertRace ==
    \/ StartRefresh(1)
    \/ SelectAssetTickers(1)
    \/ SelectAlertTickers(1)
    \/ \E i \in TaskIdx(1) : TaskFetch(1, i)
    \/ \E i \in TaskIdx(1) : TaskSet(1, i)
    \/ GatherDone(1)
    \/ LoadActive(1)
    \/ EvalCheck(1, FALSE)
    \/ Notify(1, TRUE)
    \/ CommitAlerts(1)
    \/ ReleaseRedis(1, TRUE)
    \/ DisposeEngine(1, TRUE)
    \/ Finish(1, FALSE)
    \/ \E up \in RaceUpdatesIn : StartUpdateAlert(2, 1, 1, up)
    \/ FindAlert(2)
    \/ WriteAlert(2)
    \/ RefreshAlert(2)
    \/ Finish(2, FALSE)

SpecAlertRace == InitAlertRace /\ [][NextAlertRace]_vars

(***************************************************************************)
(* Claims about an update during an evaluation pass                        *)
(***************************************************************************)
\* The pass of slot r commits in this step.
CommitsPass(r) == req[r].kind = "refresh" /\ req[r].pc = "commit" /\ req'[r].pc = "finally"

\* The price at which the pass of slot r evaluated the alert.
SeenFor(r, id) ==
    LET i == CHOOSE k \in DOMAIN req[r].job.checked : req[r].job.checked[k].id = id
    IN  StrFloat(req[r].job.checked[i].seen[1])

\* C37: an alert that the commit of a pass deactivates is triggered, at the price the
\* pass read, under the definition its row has at the commit, and the commit leaves
\* the columns of the definition as the owner wrote them.
C37_CommitUsesCurrentDefinition ==
    [][\A r \in Slots : CommitsPass(r) =>
          \A a \in alerts :
              /\ a.id \in Deactivated => IsTriggered(a, SeenFor(r, a.id))
              /\ \E b \in alerts' : /\ b.id = a.id /\ b.ticker = a.ticker
                                     /\ b.target_price = a.target_price
                                     /\ b.condition = a.condition]_vars

\* The second part alone: the commit leaves ticker, target and condition alone.
C37_CommitKeepsDefinition ==
    [][\A r \in Slots : CommitsPass(r) =>
          \A a \in alerts :
              \E b \in alerts' : /\ b.id = a.id /\ b.ticker = a.ticker
                                  /\ b.target_price = a.target_price
                                  /\ b.condition = a.condition]_vars

(***************************************************************************)
(* Two users update (slot 1) and delete (slot 2) alerts, existing or not    *)
(***************************************************************************)
\* The payloads of the updates: a target, a switch-off, a ticker with a target, a
\* null, and a ticker the pattern rejects.
AccessUpdatesIn ==
    {[NoUpdate EXCEPT !.target_price = Some(200)], [NoUpdate EXCEPT !.is_active = Some(FALSE)],
     [NoUpdate EXCEPT !.ticker = Some("ETH"), !.target_price = Some(50)],
     [NoUpdate EXCEPT !.nulls = {"target_price"}],
     [NoUpdate EXCEPT !.ticker = Some("btc")]}

InitAlertAccess ==
    /\ cache = [k \in CacheKeys |-> None]
    /\ source = [t \in Mapped |-> None]
    /\ portfolios = {}
    /\ nextPortfolioId = 1
    /\ assets = {}
    /\ nextAssetId = 1
    /\ req = [r \in Slots |-> Idle]
    /\ sess = [r \in Slots |-> NoSession]
    /\ contrib = [k \in PortfolioIds \X Tickers |-> NoContrib]
    /\ lastVal = [p \in PortfolioIds |-> NoValuation]
    /\ win = [k \in CacheKeys |-> NoWindow]
    /\ alerts = {NewAlert(1, 1, "BTC", 100, "ABOVE")}
    /\ nextAlertId = 2
    /\ history = NoHistory
    /\ lastPass = NoPass

NextAlertAccess ==
    \/ \E u \in Users, id \in 1..MaxAlertId, up \in AccessUpdatesIn :
          StartUpdateAlert(1, u, id, up)
    \/ \E u \in Users, id \in 1..MaxAlertId : StartDeleteAlert(2, u, id)
    \/ \E r \in Slots : FindAlert(r)
    \/ \E r \in Slots : WriteAlert(r)
    \/ \E r \in Slots : RefreshAlert(r)
    \/ \E r \in Slots : RemoveAlert(r)
    \/ \E r \in Slots : Finish(r, FALSE)
    \/ PostAlert(1, 2, "ETH", 150, "BELOW")
    \/ ValidateAlert(1)

SpecAlertAccess == InitAlertAccess /\ [][NextAlertAccess]_vars

(***************************************************************************)
(* Claims about the access to alerts                                       *)
(***************************************************************************)
\* update_alert or delete_alert of slot r loads the alert and checks it in this step.
Finds(r) ==
    /\ req[r].kind \in {"update_alert", "delete_alert"}
    /\ req[r].pc = "find" /\ req'[r].pc # "find"

\* Slot r is about to write for the owner of the alert.
OwnersWrite(r, a) ==
    /\ req[r].kind \in {"update_alert", "delete_alert"}
    /\ req[r].pc = "write"
    /\ req[r].alert_id = a.id
    /\ req[r].user = a.user_id

\* C38: update_alert and delete_alert answer 404 for an alert that does not exist
\* and 403 for an alert of another user, both without a further step of the request,
\* and an alert is changed or deleted only by the write of a request of its owner.
C38_DeniedChangesNothing ==
    [][/\ \A r \in Slots : Finds(r) =>
             LET alert == GetAlertById(alerts, req[r].alert_id)
             IN  /\ alert = None =>
                       req'[r].pc = "done" /\ req'[r].out.status = 404
                 /\ (alert # None /\ alert[1].user_id # req[r].user) =>
                       req'[r].pc = "done" /\ req'[r].out.status = 403
                 /\ alerts' = alerts
       /\ \A a \in alerts : a \notin alerts' => \E r \in Slots : OwnersWrite(r, a)]_vars

\* A delete by another user has been answered 403 and an update of an alert that
\* does not exist 404, and the alert is as it was created.
C38_Witness ==
    /\ req[2].kind = "delete_alert" /\ req[2].pc = "done" /\ req[2].out.status = 403
    /\ req[2].alert_id = 1 /\ req[2].user = 2
    /\ req[1].kind = "update_alert" /\ req[1].pc = "done" /\ req[1].out.status = 404
    /\ alerts = {NewAlert(1, 1, "BTC", 100, "ABOVE")}

\* An update by another user has been answered 403, and the delete of an alert that
\* is gone 404.
C38_WitnessUpdate ==
    /\ req[1].kind = "update_alert" /\ req[1].pc = "done" /\ req[1].out.status = 403
    /\ req[1].update.target_price = Some(200)
    /\ \E a \in alerts : a.id = req[1].alert_id /\ a.user_id # req[1].user
                          /\ a.target_price # 200
    /\ req[2].kind = "delete_alert" /\ req[2].pc = "done" /\ req[2].out.status = 404
    /\ req[2].alert_id < nextAlertId

(***************************************************************************)
(* Claims about what a valuation leaves behind                             *)
(***************************************************************************)
\* A step of the valuation in slot r (a change of tainted alone is not its step).
ValuateStep(r) ==
    /\ req[r].kind = "valuate"
    /\ [req'[r] EXCEPT !.tainted = req[r].tainted] # req[r]

\* The keys of the tickers the valuation in slot r has asked get_price for.
LookedUp(r) == {CacheKey(req[r].tasks[i].ticker) : i \in TaskIdx(r)}

\* C39: no step of a valuation changes a row of a position, of a holding, of an
\* alert or of the history; the only thing it changes outside itself is the cache,
\* and there only by storing a price under the key of a ticker it looked up.
C39_ValuateWritesOnlyCache ==
    [][\A r \in Slots : ValuateStep(r) =>
          /\ assets' = assets /\ nextAssetId' = nextAssetId
          /\ portfolios' = portfolios
          /\ alerts' = alerts /\ nextAlertId' = nextAlertId
          /\ history' = history
          /\ source' = source
          /\ \A k \in CacheKeys :
                cache'[k] # cache[k] => (k \in LookedUp(r) /\ cache'[k] # None)]_vars

\* A valuation has returned prices and totals, the cache has gained the price of BTC
\* and the rows are the rows of the holding.
C39_Witness ==
    /\ req[1].kind = "valuate" /\ req[1].pc = "done" /\ req[1].out.status = 200
    /\ req[1].out.portfolio.total_value # None
    /\ \E i \in TaskIdx(1) : req[1].tasks[i].ticker = "BTC" /\ req[1].tasks[i].sets = 1
    /\ cache["price:BTC"] # None
    /\ assets = HoldingA

====
